---- MODULE Spec2Model ----
(***************************************************************************)
(* SpectraQ agent backend: the query-analysis -> tool-dispatch ->          *)
(* synthesis pipeline of backend/app/services (AgentService on Redis,      *)
(* AgentServiceMVP on mock data, SpectraQGraph on LangGraph), with the     *)
(* keyword classifier and the confidence estimator as operators.           *)
(*                                                                         *)
(* Text is a sequence of one-character strings, so that lower(), strip(),  *)
(* "in" (substring) and startswith() are computed as Python computes them. *)
(* A confidence is the exact rational num/den (den > 0).                   *)
(***************************************************************************)
EXTENDS Integers, Sequences, FiniteSets, TLC

\* ---- bounds of the model ------------------------------------------------
\* phrases joined (by one space) into a query text for the classifier
MaxPhrases == 2
\* entries of a tools_used list handed to the confidence estimator
MaxToolsUsed == 3
\* required_tools argument handed to the confidence estimator
MaxRequired == 3
\* calls of the service API followed in one behaviour
MaxRequests == 2

VARIABLES
  impl,        \* which service class the API router is bound to
  servers,     \* MCPManager.servers of the AgentService: name -> status, error_count
  mvp_servers, \* MCPManagerMVP.servers: the registered mock server names
  redis_up,    \* AgentService.redis is not None
  store,       \* Redis keys session:{id} -> the session record (or NoSession)
  sessions,    \* AgentServiceMVP.sessions
  requests,    \* calls of the service API made so far
  last,        \* what the last operation was given and what it produced
  first,       \* the classifier call followed: its input, how often made, first result
  estimate     \* the estimator call followed: its arguments and, once made, its value

vars ==
  <<impl, servers, mvp_servers, redis_up, store, sessions, requests, last, first, estimate>>

\* ---- text ---------------------------------------------------------------
UpperLetters ==
  <<"A","B","C","D","E","F","G","H","I","J","K","L","M",
    "N","O","P","Q","R","S","T","U","V","W","X","Y","Z">>

LowerLetters ==
  <<"a","b","c","d","e","f","g","h","i","j","k","l","m",
    "n","o","p","q","r","s","t","u","v","w","x","y","z">>

\* str.lower() on one character
LowerChar(c) ==
  IF \E i \in 1..Len(UpperLetters) : UpperLetters[i] = c
  THEN LowerLetters[CHOOSE i \in 1..Len(UpperLetters) : UpperLetters[i] = c]
  ELSE c

\* str.lower()
Lower(s) == [i \in 1..Len(s) |-> LowerChar(s[i])]

RECURSIVE LStrip(_)
LStrip(s) == IF s # <<>> /\ Head(s) = " " THEN LStrip(Tail(s)) ELSE s

RECURSIVE RStrip(_)
RStrip(s) ==
  IF s # <<>> /\ s[Len(s)] = " " THEN RStrip(SubSeq(s, 1, Len(s) - 1)) ELSE s

\* str.strip()
Strip(s) == RStrip(LStrip(s))

\* word in text  (substring test)
Contains(text, word) ==
  \E i \in 0..(Len(text) - Len(word)) : SubSeq(text, i + 1, i + Len(word)) = word

\* text.startswith(word)
StartsWith(text, word) ==
  Len(word) <= Len(text) /\ SubSeq(text, 1, Len(word)) = word

\* any(word in text for word in words)
AnyIn(words, text) == \E i \in 1..Len(words) : Contains(text, words[i])

\* ---- keyword lists ------------------------------------------------------
RedisPriceWords ==
  << <<"p","r","i","c","e">>,
     <<"c","o","s","t">>,
     <<"v","a","l","u","e">>,
     <<"$">> >>

RedisSentimentWords ==
  << <<"s","e","n","t","i","m","e","n","t">>,
     <<"f","e","a","r">>,
     <<"g","r","e","e","d">>,
     <<"m","o","o","d">> >>

RedisNewsWords ==
  << <<"n","e","w","s">>,
     <<"h","e","a","d","l","i","n","e","s">>,
     <<"e","v","e","n","t","s">> >>

RedisWhaleWords ==
  << <<"w","h","a","l","e">>,
     <<"l","a","r","g","e">>,
     <<"t","r","a","n","s","a","c","t","i","o","n","s">>,
     <<"o","n","-","c","h","a","i","n">> >>

RedisComplianceWords ==
  << <<"a","u","d","i","t">>,
     <<"c","o","m","p","l","i","a","n","c","e">>,
     <<"c","o","n","t","r","a","c","t">>,
     <<"s","m","a","r","t"," ","c","o","n","t","r","a","c","t">>,
     <<"r","e","g","u","l","a","t","o","r","y">>,
     <<"a","m","l">>,
     <<"g","d","p","r">>,
     <<"k","y","c">> >>

ContractKeywords ==
  << <<"c","o","n","t","r","a","c","t">>,
     <<"f","u","n","c","t","i","o","n">>,
     <<"p","r","a","g","m","a">>,
     <<"s","o","l","i","d","i","t","y">> >>

Greetings ==
  << <<"h","i">>,
     <<"h","e","l","l","o">>,
     <<"h","e","y">>,
     <<"g","r","e","e","t","i","n","g","s">>,
     <<"g","o","o","d"," ","m","o","r","n","i","n","g">>,
     <<"g","o","o","d"," ","a","f","t","e","r","n","o","o","n">>,
     <<"g","o","o","d"," ","e","v","e","n","i","n","g">>,
     <<"h","o","w","d","y">>,
     <<"s","u","p">>,
     <<"w","h","a","t","'","s"," ","u","p">> >>

MvpPriceWords ==
  << <<"p","r","i","c","e">>,
     <<"c","o","s","t">>,
     <<"v","a","l","u","e">>,
     <<"$">>,
     <<"b","i","t","c","o","i","n">>,
     <<"b","t","c">>,
     <<"e","t","h","e","r","e","u","m">>,
     <<"e","t","h">> >>

EthWords ==
  << <<"e","t","h","e","r","e","u","m">>,
     <<"e","t","h">> >>

AdaWords ==
  << <<"c","a","r","d","a","n","o">>,
     <<"a","d","a">> >>

SolWords ==
  << <<"s","o","l","a","n","a">>,
     <<"s","o","l">> >>

BtcWords ==
  << <<"b","i","t","c","o","i","n">>,
     <<"b","t","c">> >>

MvpSentimentWords ==
  << <<"s","e","n","t","i","m","e","n","t">>,
     <<"f","e","a","r">>,
     <<"g","r","e","e","d">>,
     <<"m","o","o","d">>,
     <<"m","a","r","k","e","t">>,
     <<"f","e","e","l","i","n","g">> >>

MvpNewsWords ==
  << <<"n","e","w","s">>,
     <<"h","e","a","d","l","i","n","e","s">>,
     <<"e","v","e","n","t","s">>,
     <<"h","a","p","p","e","n","i","n","g">>,
     <<"l","a","t","e","s","t">> >>

MvpAnalysisWords ==
  << <<"a","n","a","l","y","s","i","s">>,
     <<"a","n","a","l","y","z","e">>,
     <<"m","a","r","k","e","t">>,
     <<"t","r","e","n","d">>,
     <<"t","e","c","h","n","i","c","a","l">> >>

GraphPriceWords ==
  << <<"p","r","i","c","e">>,
     <<"c","o","s","t">>,
     <<"v","a","l","u","e">>,
     <<"$">> >>

GraphSentimentWords ==
  << <<"s","e","n","t","i","m","e","n","t">>,
     <<"f","e","a","r">>,
     <<"g","r","e","e","d">>,
     <<"n","e","w","s">> >>

GraphWhaleWords ==
  << <<"w","h","a","l","e">>,
     <<"o","n","-","c","h","a","i","n">>,
     <<"t","r","a","n","s","a","c","t","i","o","n">> >>

GraphComplianceWords ==
  << <<"a","u","d","i","t">>,
     <<"c","o","m","p","l","i","a","n","c","e">>,
     <<"c","o","n","t","r","a","c","t">>,
     <<"r","e","g","u","l","a","t","o","r","y">> >>

NeedsComplianceWords ==
  << <<"t","r","a","d","e">>,
     <<"t","r","a","n","s","a","c","t","i","o","n">>,
     <<"c","o","n","t","r","a","c","t">>,
     <<"s","m","a","r","t"," ","c","o","n","t","r","a","c","t">>,
     <<"r","e","g","u","l","a","t","o","r","y">>,
     <<"c","o","m","p","l","i","a","n","c","e">>,
     <<"a","u","d","i","t">>,
     <<"r","i","s","k">> >>

\* ---- query texts --------------------------------------------------------
\* The phrases queries are made of. A query is a sequence of phrase names;
\* its text is the phrases joined by one space.
PhraseText ==
  [ hello |-> <<"h","e","l","l","o">>,
    hi_there |-> <<"H","i"," ","t","h","e","r","e">>,
    history |-> <<"h","i","s","t","o","r","y">>,
    price_btc |-> <<"W","h","a","t","'","s"," ","t","h","e"," ","p","r","i","c","e"," ","o","f"," ","B","T","C","?">>,
    price |-> <<"p","r","i","c","e">>,
    eth_value |-> <<"E","T","H"," ","v","a","l","u","e">>,
    market_sentiment |-> <<"m","a","r","k","e","t"," ","s","e","n","t","i","m","e","n","t">>,
    fear |-> <<"f","e","a","r">>,
    latest_news |-> <<"l","a","t","e","s","t"," ","n","e","w","s">>,
    whale |-> <<"w","h","a","l","e"," ","a","l","e","r","t","s">>,
    audit |-> <<"a","u","d","i","t"," ","m","y"," ","c","o","n","t","r","a","c","t">>,
    joke |-> <<"t","e","l","l"," ","m","e"," ","a"," ","j","o","k","e">>,
    technical |-> <<"t","e","c","h","n","i","c","a","l"," ","t","r","e","n","d">>,
    padded_hey |-> <<" ","h","e","y"," ">>,
    thanks |-> <<"t","h","a","n","k"," ","y","o","u">> ]

Phrases == DOMAIN PhraseText

\* every query of 1..MaxPhrases phrases
Queries == UNION { [1..n -> Phrases] : n \in 1..MaxPhrases }

RECURSIVE Text(_)
Text(q) ==
  IF Len(q) = 1 THEN PhraseText[q[1]]
  ELSE PhraseText[q[1]] \o <<" ">> \o Text(Tail(q))

\* ---- schemas ------------------------------------------------------------
\* class QueryType(str, Enum): member name -> value
QueryType ==
  [ MARKET_ANALYSIS   |-> "market_analysis",
    PRICE_PREDICTION  |-> "price_prediction",
    NEWS_SENTIMENT    |-> "news_sentiment",
    ON_CHAIN_ANALYSIS |-> "on_chain_analysis",
    GENERAL_CRYPTO    |-> "general_crypto",
    TRADING_ADVICE    |-> "trading_advice" ]

QueryTypeValues == { QueryType[n] : n \in DOMAIN QueryType }

\* QueryType.<name> evaluates to the member when the enumeration has one and
\* raises AttributeError otherwise
HasMember(name) == name \in DOMAIN QueryType

Member(name) == IF HasMember(name) THEN QueryType[name] ELSE "AttributeError"

\* Python's None, for a string-valued field
None == "<None>"

\* a tool-invocation descriptor {"server", "tool", "parameters"}; parameters
\* is the sequence of its (key, value) items, every value a sequence of strings
Tool(server, tool, parameters) ==
  [server |-> server, tool |-> tool, parameters |-> parameters]

\* the dict a classifier returns, or the exception it raises
Analysis(type, tools, num) ==
  [raised |-> FALSE, error |-> None, type |-> type, tools |-> tools,
   confidence |-> [num |-> num, den |-> 10]]

Raised(error) ==
  [raised |-> TRUE, error |-> error, type |-> None, tools |-> <<>>,
   confidence |-> [num |-> 0, den |-> 10]]

\* ---- AgentService (Redis-backed): the classifier ------------------------
\* an assignment that keeps a query_type an earlier match has set
Assign_first(matched, type, previous) ==
  IF previous # QueryType.GENERAL_CRYPTO THEN previous
  ELSE IF matched THEN type ELSE previous

\* "if any(...): query_type = ...": a later match overwrites an earlier one
Assign(matched, type, previous) == IF matched THEN type ELSE previous

\* the backquote character (written as a token: the lexer reads no backquote)
BQ == "<backquote>"

Fence == <<BQ, BQ, BQ>>

SolidityFence == <<BQ, BQ, BQ, "s","o","l","i","d","i","t","y">>

\* no contract code found
NoCode == <<"<None>">>

SetMin(S) == CHOOSE x \in S : \A y \in S : x <= y

\* re.search of opener, a lazy group and the closing fence (re.DOTALL):
\* group(1).strip() of the leftmost match, or NoCode
CodeBlock(query, opener) ==
  LET closes(i) == { j \in (i + Len(opener))..(Len(query) - 2) :
                       SubSeq(query, j, j + 2) = Fence }
      opens == { i \in 1..Len(query) :
                   /\ SubSeq(query, i, i + Len(opener) - 1) = opener
                   /\ closes(i) # {} }
  IN IF opens = {} THEN NoCode
     ELSE LET i == SetMin(opens)
          IN Strip(SubSeq(query, i + Len(opener), SetMin(closes(i)) - 1))

AgentService_extract_contract_code(query) ==
  IF CodeBlock(query, SolidityFence) # NoCode THEN CodeBlock(query, SolidityFence)
  ELSE IF CodeBlock(query, Fence) # NoCode THEN CodeBlock(query, Fence)
  ELSE IF AnyIn(ContractKeywords, Lower(query)) THEN query
  ELSE NoCode

AgentService_extract_standards(query) ==
  LET query_lower == Lower(query)
      has(a, b) == Contains(query_lower, a) \/ Contains(query_lower, b)
      standards ==
        (IF has(<<"a","m","l">>,
                <<"m","o","n","e","y"," ","l","a","u","n","d","e","r","i","n","g">>)
         THEN <<"AML">> ELSE <<>>)
        \o (IF has(<<"g","d","p","r">>, <<"p","r","i","v","a","c","y">>)
            THEN <<"GDPR">> ELSE <<>>)
        \o (IF has(<<"k","y","c">>,
                   <<"k","n","o","w"," ","y","o","u","r"," ","c","u","s","t","o","m","e","r">>)
            THEN <<"KYC">> ELSE <<>>)
        \o (IF \/ has(<<"e","e","r","c">>, <<"e","n","h","a","n","c","e","d"," ","e","r","c">>)
               \/ Contains(query_lower, <<"a","v","a","l","a","n","c","h","e">>)
            THEN <<"eERC">> ELSE <<>>)
  IN IF standards = <<>> THEN <<"AML", "GDPR", "KYC">> ELSE standards

\* AgentService._analyze_query: five independent ifs, evaluated in order, each
\* overwriting query_type and appending its tools
AgentService_analyze_query(query) ==
  LET query_lower == Lower(query)
      price      == AnyIn(RedisPriceWords, query_lower)
      sentiment  == AnyIn(RedisSentimentWords, query_lower)
      news       == AnyIn(RedisNewsWords, query_lower)
      whale      == AnyIn(RedisWhaleWords, query_lower)
      compliance == AnyIn(RedisComplianceWords, query_lower)
      type1 == Assign(price, QueryType.PRICE_PREDICTION, QueryType.GENERAL_CRYPTO)
      type2 == Assign(sentiment, QueryType.NEWS_SENTIMENT, type1)
      type3 == Assign(news, QueryType.NEWS_SENTIMENT, type2)
      type4 == Assign(whale, QueryType.ON_CHAIN_ANALYSIS, type3)
      type5 == Assign(compliance, Member("COMPLIANCE_AUDIT"), type4)
      tools1 ==
        IF price
        THEN << Tool("coingecko", "get_coin_price", << <<"symbol", <<"bitcoin">> >> >>) >>
        ELSE <<>>
      tools2 ==
        tools1 \o
        (IF sentiment
         THEN << Tool("feargreed", "get_fear_greed_index", <<>>),
                 Tool("cryptopanic", "get_news", << <<"filter", <<"rising">> >> >>) >>
         ELSE <<>>)
      tools3 ==
        tools2 \o
        (IF news
         THEN << Tool("cryptopanic", "get_news", << <<"filter", <<"hot">> >> >>) >>
         ELSE <<>>)
      tools4 ==
        tools3 \o
        (IF whale
         THEN << Tool("whaletracker", "get_whale_alerts",
                      << <<"min_value", <<"1000000">> >> >>) >>
         ELSE <<>>)
      contract_code == AgentService_extract_contract_code(query)
      standards     == AgentService_extract_standards(query)
      tools5 ==
        tools4 \o
        (IF compliance /\ contract_code \notin {NoCode, <<>>}
         THEN << Tool("complai", "compliance_audit",
                      << <<"contract_code", contract_code>>,
                         <<"standards", standards>> >>) >>
         ELSE <<>>)
  IN IF compliance /\ ~HasMember("COMPLIANCE_AUDIT")
     THEN Raised("AttributeError")
     ELSE Analysis(type5, tools5, 8)

\* ---- AgentServiceMVP: the classifier ------------------------------------
\* f"{symbol}/USDT"
Ticker(symbol) ==
  CASE symbol = "BTC" -> "BTC/USDT"
    [] symbol = "ETH" -> "ETH/USDT"
    [] symbol = "ADA" -> "ADA/USDT"
    [] symbol = "SOL" -> "SOL/USDT"

\* a greeting test by equality alone
IsGreeting_exact(query_lower) == \E i \in 1..Len(Greetings) : query_lower = Greetings[i]

\* query_lower in greetings or any(query_lower.startswith(greeting) ...)
IsGreeting(query_lower) ==
  \/ \E i \in 1..Len(Greetings) : query_lower = Greetings[i]
  \/ \E i \in 1..Len(Greetings) : StartsWith(query_lower, Greetings[i])

\* no fallback: the list as the keyword tests left it
AgentServiceMVP_fallback_none(tools_needed) == tools_needed

\* "if not tools_needed:" the basic market overview
AgentServiceMVP_fallback(tools_needed) ==
  IF tools_needed = <<>>
  THEN << Tool("coingecko", "get_coin_price", << <<"symbol", <<"BTC">> >> >>),
          Tool("feargreed", "get_fear_greed_index", <<>>) >>
  ELSE tools_needed

AgentServiceMVP_analyze_query(query) ==
  LET query_lower == Strip(Lower(query))
      price     == AnyIn(MvpPriceWords, query_lower)
      sentiment == AnyIn(MvpSentimentWords, query_lower)
      news      == AnyIn(MvpNewsWords, query_lower)
      analysis  == AnyIn(MvpAnalysisWords, query_lower)
      symbol ==
        IF AnyIn(EthWords, query_lower) THEN "ETH"
        ELSE IF AnyIn(AdaWords, query_lower) THEN "ADA"
        ELSE IF AnyIn(SolWords, query_lower) THEN "SOL"
        ELSE "BTC"
      type1 == Assign(price, QueryType.PRICE_PREDICTION, QueryType.GENERAL_CRYPTO)
      type2 == Assign(sentiment, QueryType.MARKET_ANALYSIS, type1)
      type3 == Assign(news, QueryType.NEWS_SENTIMENT, type2)
      type4 == Assign(analysis, QueryType.MARKET_ANALYSIS, type3)
      tools1 ==
        IF price
        THEN << Tool("coingecko", "get_coin_price", << <<"symbol", <<symbol>> >> >>),
                Tool("ccxt", "get_ticker", << <<"symbol", <<Ticker(symbol)>> >> >>) >>
        ELSE <<>>
      tools2 ==
        tools1 \o
        (IF sentiment /\ AnyIn(BtcWords, query_lower) /\ AnyIn(EthWords, query_lower)
         THEN << Tool("coingecko", "get_coin_price", << <<"symbol", <<"BTC">> >> >>),
                 Tool("coingecko", "get_coin_price", << <<"symbol", <<"ETH">> >> >>),
                 Tool("ccxt", "get_ticker", << <<"symbol", <<"ETH/USDT">> >> >>) >>
         ELSE <<>>)
        \o
        (IF sentiment
         THEN << Tool("feargreed", "get_fear_greed_index", <<>>),
                 Tool("cryptopanic", "get_news", << <<"filter", <<"rising">> >> >>) >>
         ELSE <<>>)
      tools3 ==
        tools2 \o
        (IF news
         THEN << Tool("cryptopanic", "get_news", << <<"filter", <<"hot">> >> >>) >>
         ELSE <<>>)
      tools4 ==
        tools3 \o
        (IF analysis
         THEN << Tool("coingecko", "get_market_data", <<>>),
                 Tool("feargreed", "get_fear_greed_index", <<>>) >>
         ELSE <<>>)
      tools5 == AgentServiceMVP_fallback(tools4)
  IN IF IsGreeting(query_lower)
     THEN Analysis(QueryType.GENERAL_CRYPTO, <<>>, 9)
     ELSE Analysis(type4, tools5, 8)

\* ---- SpectraQGraph: the analyze_query node ------------------------------
\* an if / elif chain: the first matching branch alone assigns query_type
SpectraQGraph_analyze_query(query) ==
  LET query_lower == Lower(query)
  IN IF AnyIn(GraphPriceWords, query_lower)
       THEN Analysis(QueryType.PRICE_PREDICTION, <<>>, 8)
     ELSE IF AnyIn(GraphSentimentWords, query_lower)
       THEN Analysis(QueryType.NEWS_SENTIMENT, <<>>, 8)
     ELSE IF AnyIn(GraphWhaleWords, query_lower)
       THEN Analysis(QueryType.ON_CHAIN_ANALYSIS, <<>>, 8)
     ELSE IF AnyIn(GraphComplianceWords, query_lower)
       THEN (IF HasMember("COMPLIANCE_AUDIT")
             THEN Analysis(Member("COMPLIANCE_AUDIT"), <<>>, 8)
             ELSE Raised("AttributeError"))
     ELSE Analysis(QueryType.GENERAL_CRYPTO, <<>>, 8)

\* ---- the queries the pipelines are run on --------------------------------
PipelineQueries ==
  { <<"hello">>, <<"hi_there", "price">>, <<"price_btc">>, <<"price", "latest_news">>,
    <<"market_sentiment">>, <<"fear", "latest_news">>, <<"audit">>, <<"joke">> }

\* self._analyze_query(query) of each class on these queries
AgentService_analysis == [q \in PipelineQueries |-> AgentService_analyze_query(Text(q))]

AgentServiceMVP_analysis == [q \in PipelineQueries |-> AgentServiceMVP_analyze_query(Text(q))]

SpectraQGraph_analysis == [q \in PipelineQueries |-> SpectraQGraph_analyze_query(Text(q))]

\* ---- confidence estimators ----------------------------------------------
\* a rational num/den, den > 0
Rat(num, den) == [num |-> num, den |-> den]

RatLeq(a, b) == a.num * b.den <= b.num * a.den

RatEq(a, b) == a.num * b.den = b.num * a.den

\* min(a, b)
RatMin(a, b) == IF RatLeq(a, b) THEN a ELSE b

\* ToolCall(tool_name, parameters, result, execution_time_ms, error);
\* tool_name is f"{server}.{tool}", kept as the pair
ToolCall(tool_info, result, error) ==
  [tool_name |-> <<tool_info.server, tool_info.tool>>,
   parameters |-> tool_info.parameters, result |-> result, error |-> error]

\* sum(1 for tool in tools_used if not tool.error): None and "" are falsy
Successful(tools_used) ==
  Cardinality({ i \in 1..Len(tools_used) : tools_used[i].error \in {None, ""} })

\* "return 0.7  # Base confidence for general queries", in hundredths
BaseConfidence == 70

\* min(0.95, ...) of AgentService, in hundredths
RedisCeiling == 95

\* min(0.90, ...) of AgentServiceMVP, in hundredths
MvpCeiling == 90

\* .get(query_type, 0.7) of both services, in hundredths
DefaultWeight == 70

\* type_confidence of AgentService, in hundredths
RedisTypeConfidence ==
  [ market_analysis |-> 90, price_prediction |-> 70, news_sentiment |-> 85,
    on_chain_analysis |-> 90, general_crypto |-> 80, trading_advice |-> 60 ]

\* type_confidence of AgentServiceMVP, in hundredths
MvpTypeConfidence ==
  [ market_analysis |-> 85, price_prediction |-> 75, news_sentiment |-> 80,
    general_crypto |-> 70, trading_advice |-> 65 ]

\* a lookup that finds no entry: every type weighs the default
Weight_default(table, query_type) == DefaultWeight

\* type_confidence.get(query_type, 0.7)
Weight(table, query_type) ==
  IF query_type \in DOMAIN table THEN table[query_type] ELSE DefaultWeight

\* the estimator with len(tools_used) in place of the successful count
AgentService_calculate_confidence_score_all(tools_used, required_tools, query_type) ==
  IF required_tools = 0 THEN Rat(BaseConfidence, 100)
  ELSE RatMin(Rat(RedisCeiling, 100),
              Rat(Len(tools_used) * Weight(RedisTypeConfidence, query_type),
                  required_tools * 100))

\* AgentService._calculate_confidence_score
AgentService_calculate_confidence_score(tools_used, required_tools, query_type) ==
  IF required_tools = 0 THEN Rat(BaseConfidence, 100)
  ELSE RatMin(Rat(RedisCeiling, 100),
              Rat(Successful(tools_used) * Weight(RedisTypeConfidence, query_type),
                  required_tools * 100))

\* the estimator without the division by required_tools and without the min
AgentServiceMVP_calculate_confidence_score_sum(tools_used, required_tools, query_type) ==
  IF required_tools = 0 THEN Rat(BaseConfidence, 100)
  ELSE Rat(Successful(tools_used) * Weight(MvpTypeConfidence, query_type), 100)

\* AgentServiceMVP._calculate_confidence_score
AgentServiceMVP_calculate_confidence_score(tools_used, required_tools, query_type) ==
  IF required_tools = 0 THEN Rat(BaseConfidence, 100)
  ELSE RatMin(Rat(MvpCeiling, 100),
              Rat(Successful(tools_used) * Weight(MvpTypeConfidence, query_type),
                  required_tools * 100))

\* SpectraQGraph._calculate_confidence_score, in hundredths. audit is the
\* compliance_audit entry of the state: NoAudit, or a dict whose risk_score
\* (has_risk) is risk tenths
NoAudit == [present |-> FALSE, has_risk |-> FALSE, risk |-> 0]

Audit(has_risk, risk) == [present |-> TRUE, has_risk |-> has_risk, risk |-> risk]

SpectraQGraph_calculate_confidence_score(tool_results, audit) ==
  LET base  == 50
      tools == IF tool_results # <<>> THEN 20 ELSE 0
      comp  == IF audit.present /\ audit.has_risk THEN (10 - audit.risk) * 3 ELSE 0
      score == base + tools + comp
  IN Rat(IF score > 100 THEN 100 ELSE score, 100)

\* confidence_score: float = Field(..., ge=0.0, le=1.0) of AgentQueryResponse
ValidConfidence(c) == 0 <= c.num /\ c.num <= c.den

\* ---- dicts --------------------------------------------------------------
\* a dict is the sequence of its (key, value) items in insertion order
DictHas(d, k) == \E i \in 1..Len(d) : d[i][1] = k

\* d[k] = v
DictSet(d, k, v) ==
  IF DictHas(d, k)
  THEN [i \in 1..Len(d) |-> IF d[i][1] = k THEN <<k, v>> ELSE d[i]]
  ELSE Append(d, <<k, v>>)

\* d.get(k, default)
DictGet(d, k, default) ==
  IF DictHas(d, k) THEN d[CHOOSE i \in 1..Len(d) : d[i][1] = k][2] ELSE default

\* ---- MCPManager (AgentService's dispatcher) -----------------------------
ServerNames == {"coingecko", "feargreed", "cryptopanic", "whaletracker", "complai"}

\* status "absent": the name is not a key of MCPManager.servers
ServerStatus == {"absent", "stopped", "running", "error"}

\* the result value of a tool call that returned
ToolResult(kind, server, tool, parameters) ==
  [kind |-> kind, server |-> server, tool |-> tool, parameters |-> parameters]

NoResult == ToolResult("none", None, None, <<>>)

\* what a call of MCPManager.call_tool gives: returned or raised (error_type,
\* message, the exception's server_name), whether the HTTP request or the
\* process I/O was attempted (io), and the servers afterwards
CallRaised(message, server_name, io, srv) ==
  [raised |-> TRUE, error_type |-> "MCPServerError", error |-> message,
   server_name |-> server_name, io |-> io, result |-> NoResult, servers |-> srv]

CallReturned(result, srv) ==
  [raised |-> FALSE, error_type |-> None, error |-> None, server_name |-> None,
   io |-> TRUE, result |-> result, servers |-> srv]

\* call_tool with the two checks before the try block left out
MCPManager_call_tool_unchecked(srv, server_name, tool_name, parameters, ext) ==
  IF ext = "fail" \/ srv[server_name].status # "running"
  THEN CallRaised("MCPServerError: tool call failed", server_name, TRUE,
                  [srv EXCEPT ![server_name].error_count = @ + 1])
  ELSE CallReturned(ToolResult("data", server_name, tool_name, parameters), srv)

\* MCPManager.call_tool: ext is what the HTTP request or the process I/O does
\* ("ok" or "fail"). Gives the outcome and the servers afterwards.
MCPManager_call_tool(srv, server_name, tool_name, parameters, ext) ==
  IF srv[server_name].status = "absent"
  THEN CallRaised("MCPServerError: not found", server_name, FALSE, srv)
  ELSE IF srv[server_name].status # "running"
  THEN CallRaised("MCPServerError: not running", server_name, FALSE, srv)
  ELSE IF ext = "fail"
  THEN CallRaised("MCPServerError: tool call failed", server_name, TRUE,
                  [srv EXCEPT ![server_name].error_count = @ + 1])
  ELSE CallReturned(ToolResult("data", server_name, tool_name, parameters), srv)

\* ---- MCPManagerMVP (AgentServiceMVP's dispatcher) -----------------------
MockServerNames == {"coingecko", "ccxt", "feargreed", "cryptopanic", "firecrawl"}

\* MCPManagerMVP.call_tool never raises: an unknown server, and an exception
\* of the mock generator, come back as a dict holding "error"
MCPManagerMVP_call_tool(registered, server_name, tool_name, parameters) ==
  IF server_name \notin registered
  THEN [raised |-> FALSE, error |-> None,
        result |-> ToolResult("error_dict", server_name, tool_name, parameters)]
  ELSE [raised |-> FALSE, error |-> None,
        result |-> ToolResult("data", server_name, tool_name, parameters)]

\* ---- sessions -----------------------------------------------------------
SessionIds == {"s1"}

\* timedelta(hours=2).total_seconds()
SessionTTL == 7200

\* "Keep only last 20 exchanges" (AgentService)
RedisHistoryLimit == 20

\* "Keep only last 10 exchanges for MVP" (AgentServiceMVP)
MvpHistoryLimit == 10

NoSession == [exists |-> FALSE, message_count |-> 0, history |-> <<>>, ttl |-> 0]

\* the session_data create_session stores
NewSession(ttl) == [exists |-> TRUE, message_count |-> 0, history |-> <<>>, ttl |-> ttl]

\* s[:] (no slice)
LastN_all(s, n) == s

\* s[-n:]
LastN(s, n) == IF Len(s) <= n THEN s ELSE SubSeq(s, Len(s) - n + 1, Len(s))

\* _update_session_context writing the key back with its remaining time (KEEPTTL)
AgentService_update_session_context_keepttl(st, up, session_id, query, response, tool_results) ==
  IF ~up \/ ~st[session_id].exists THEN st
  ELSE [st EXCEPT ![session_id] =
          [exists |-> TRUE,
           message_count |-> @.message_count + 1,
           history |-> LastN(Append(@.history,
                                    [query |-> query, response |-> response,
                                     tools_data |-> tool_results]),
                             RedisHistoryLimit),
           ttl |-> @.ttl]]

\* AgentService._update_session_context: with self.redis None the get raises
\* AttributeError, which the except clause logs; a missing key changes nothing
AgentService_update_session_context(st, up, session_id, query, response, tool_results) ==
  IF ~up \/ ~st[session_id].exists THEN st
  ELSE [st EXCEPT ![session_id] =
          [exists |-> TRUE,
           message_count |-> @.message_count + 1,
           history |-> LastN(Append(@.history,
                                    [query |-> query, response |-> response,
                                     tools_data |-> tool_results]),
                             RedisHistoryLimit),
           ttl |-> SessionTTL]]

\* response[:200] + "..."
Truncated(response) ==
  CASE response = "mock_report" -> "mock_report[:200]..."
    [] OTHER -> "[:200]..."

\* AgentServiceMVP._update_session_context
AgentServiceMVP_update_session_context(ss, session_id, query, response, tool_results) ==
  IF ~ss[session_id].exists THEN ss
  ELSE [ss EXCEPT ![session_id] =
          [exists |-> TRUE,
           message_count |-> @.message_count + 1,
           history |-> LastN(Append(@.history,
                                    [query |-> query, response |-> Truncated(response),
                                     has_tool_data |-> tool_results # <<>>]),
                             MvpHistoryLimit),
           ttl |-> @.ttl]]

\* ---- SpectraQGraph: the workflow ----------------------------------------
\* the dict SpectraQGraph.process_query returns, and the servers afterwards
GraphResult(response, audit, confidence, steps, tool_results, srv) ==
  [response |-> response, compliance_audit |-> audit, confidence_score |-> confidence,
   processing_steps |-> steps, tool_results |-> tool_results, servers |-> srv]

\* the except clause of SpectraQGraph.process_query
GraphError(srv) ==
  GraphResult("Error processing query", NoAudit, Rat(0, 100), <<"error">>, <<>>, srv)

\* tools_to_call of _gather_data
SpectraQGraph_tools_to_call(query_type) ==
  IF query_type = QueryType.PRICE_PREDICTION
  THEN << Tool("coingecko", "get_coin_price", << <<"symbol", <<"bitcoin">> >> >>) >>
  ELSE IF query_type = QueryType.NEWS_SENTIMENT
  THEN << Tool("feargreed", "get_fear_greed_index", <<>>),
          Tool("cryptopanic", "get_news", << <<"filter", <<"hot">> >> >>) >>
  ELSE <<>>

\* the loop of _gather_data: a failed call is logged and skipped
RECURSIVE SpectraQGraph_gather_data(_, _, _, _)
SpectraQGraph_gather_data(tools, ext, i, acc) ==
  IF i > Len(tools) THEN acc
  ELSE LET tool_info == tools[i]
           call == MCPManager_call_tool(acc.servers, tool_info.server, tool_info.tool,
                                        tool_info.parameters, ext[i])
       IN SpectraQGraph_gather_data(tools, ext, i + 1,
            [servers |-> call.servers,
             tool_results |->
               IF call.raised THEN acc.tool_results
               ELSE DictSet(acc.tool_results, <<tool_info.server, tool_info.tool>>,
                            call.result)])

SpectraQGraph_extract_contract_code(query) ==
  IF CodeBlock(query, SolidityFence) # NoCode THEN CodeBlock(query, SolidityFence)
  ELSE CodeBlock(query, Fence)

SpectraQGraph_extract_standards(query) ==
  LET query_lower == Lower(query)
      standards ==
        (IF Contains(query_lower, <<"a","m","l">>) THEN <<"AML">> ELSE <<>>)
        \o (IF Contains(query_lower, <<"g","d","p","r">>) THEN <<"GDPR">> ELSE <<>>)
        \o (IF Contains(query_lower, <<"k","y","c">>) THEN <<"KYC">> ELSE <<>>)
        \o (IF Contains(query_lower, <<"e","e","r","c">>) THEN <<"eERC">> ELSE <<>>)
  IN IF standards = <<>> THEN <<"AML", "GDPR">> ELSE standards

\* whether _compliance_check calls the audit tool
SpectraQGraph_audit_called(query, query_type) ==
  /\ \/ query_type = Member("COMPLIANCE_AUDIT")
     \/ AnyIn(NeedsComplianceWords, Lower(query))
  /\ SpectraQGraph_extract_contract_code(query) \notin {NoCode, <<>>}

\* SpectraQGraph.process_query: analyze_query, then the conditional edge
\* _should_gather_data (which evaluates QueryType.COMPLIANCE_AUDIT), gather_data
\* unless the type is the compliance one, compliance_check, generate_response.
\* Any exception of a node or an edge ends in the except clause.
\* ext: the outcomes of the tool calls in call order; llm: of the completion;
\* risk: the audit tool's answer.
SpectraQGraph_process_query(q, ext, llm, risk, srv) ==
  LET a == SpectraQGraph_analysis[q]
      query == Text(q)
  IN IF a.raised \/ ~HasMember("COMPLIANCE_AUDIT") THEN GraphError(srv)
     ELSE
       LET gather == a.type # Member("COMPLIANCE_AUDIT")
           tools  == IF gather THEN SpectraQGraph_tools_to_call(a.type) ELSE <<>>
           g      == SpectraQGraph_gather_data(tools, ext, 1,
                                               [servers |-> srv, tool_results |-> <<>>])
           called == SpectraQGraph_audit_called(query, a.type)
           call   == MCPManager_call_tool(
                       g.servers, "complai", "compliance_audit",
                       << <<"contract_code", SpectraQGraph_extract_contract_code(query)>>,
                          <<"standards", SpectraQGraph_extract_standards(query)>> >>,
                       ext[Len(tools) + 1])
           audit  == IF ~called THEN NoAudit
                     ELSE IF call.raised THEN Audit(TRUE, 10)
                     ELSE risk
           srv2   == IF called THEN call.servers ELSE g.servers
           steps  == <<"query_analysis">>
                     \o (IF gather THEN <<"data_gathering">> ELSE <<>>)
                     \o (IF called /\ ~call.raised THEN <<"compliance_audit">> ELSE <<>>)
       IN IF llm = "ok"
          THEN GraphResult("llm_answer", audit,
                           SpectraQGraph_calculate_confidence_score(g.tool_results, audit),
                           Append(steps, "response_generation"), g.tool_results, srv2)
          ELSE GraphResult("I apologize", audit, Rat(0, 100), steps, g.tool_results, srv2)

\* the number of call_tool invocations of a graph run
SpectraQGraph_calls(q) ==
  LET a == SpectraQGraph_analysis[q]
      query == Text(q)
  IN IF a.raised \/ ~HasMember("COMPLIANCE_AUDIT") THEN 0
     ELSE (IF a.type # Member("COMPLIANCE_AUDIT")
           THEN Len(SpectraQGraph_tools_to_call(a.type)) ELSE 0)
          + (IF SpectraQGraph_audit_called(query, a.type) THEN 1 ELSE 0)

\* ---- the pipelines ------------------------------------------------------
\* the classifier was not called
NoAnalysis ==
  [raised |-> FALSE, error |-> None, type |-> None, tools |-> <<>>,
   confidence |-> [num |-> 0, den |-> 10]]

\* What one call produced. outcome: "returned" (an AgentQueryResponse, or the
\* classifier's dict) or "raised" (error names the exception); path: "simple"
\* or "langgraph"; calls: how each call_tool invocation of the tool loop ended
\* ("ok" or "failed"), in call order; synthesized: the completion (or the mock
\* report) was asked for; scored: confidence holds the confidence_score that
\* was computed.
Run(outcome, error, path, analysis, t, synthesized, scored, confidence, query_type, response) ==
  [outcome |-> outcome, error |-> error, path |-> path, analysis |-> analysis,
   calls |-> t.calls, tools_used |-> t.tools_used, tool_results |-> t.tool_results,
   data_sources |-> t.data_sources, invoked |-> t.invoked, synthesized |-> synthesized, scored |-> scored,
   confidence |-> confidence, query_type |-> query_type, response |-> response]

\* no exception
NoError == <<>>

NoTools ==
  [calls |-> <<>>, tools_used |-> <<>>, tool_results |-> <<>>, data_sources |-> <<>>,
   invoked |-> <<>>]

NoRun == Run("none", NoError, "none", NoAnalysis, NoTools, FALSE, FALSE, Rat(0, 100), None, None)

\* raise AgentSessionError(f"Failed to process query: {str(e)}"): the error
\* keeps what was caught
AgentSessionError(cause) == <<"AgentSessionError", cause>>

\* what mcp_manager.call_tool was invoked with
Invocation(tool_info) == <<tool_info.server, tool_info.tool, tool_info.parameters>>

\* the loop over required_tools of AgentService.process_query: a call that
\* raises is logged and skipped ("continue")
RECURSIVE AgentService_tool_loop(_, _, _, _)
AgentService_tool_loop(required_tools, ext, i, acc) ==
  IF i > Len(required_tools) THEN acc
  ELSE LET tool_info == required_tools[i]
           call == MCPManager_call_tool(acc.servers, tool_info.server, tool_info.tool,
                                        tool_info.parameters, ext[i])
       IN AgentService_tool_loop(required_tools, ext, i + 1,
            IF call.raised
            THEN [acc EXCEPT !.servers = call.servers, !.calls = Append(@, "failed"),
                             !.invoked = Append(@, Invocation(tool_info))]
            ELSE [servers |-> call.servers,
                  calls |-> Append(acc.calls, "ok"),
                  tools_used |-> Append(acc.tools_used,
                                        ToolCall(tool_info, call.result, None)),
                  tool_results |-> DictSet(acc.tool_results, tool_info.tool, call.result),
                  data_sources |-> Append(acc.data_sources, tool_info.server),
                  invoked |-> Append(acc.invoked, Invocation(tool_info))])

\* a loop that goes over required_tools a second time
AgentService_call_tools_twice(required_tools, ext, srv) ==
  AgentService_tool_loop(required_tools \o required_tools, ext \o ext, 1,
    [servers |-> srv, calls |-> <<>>, tools_used |-> <<>>, tool_results |-> <<>>,
     data_sources |-> <<>>, invoked |-> <<>>])

\* "for tool_info in required_tools:" entered with the empty collections
AgentService_call_tools(required_tools, ext, srv) ==
  AgentService_tool_loop(required_tools, ext, 1,
    [servers |-> srv, calls |-> <<>>, tools_used |-> <<>>, tool_results |-> <<>>,
     data_sources |-> <<>>, invoked |-> <<>>])

\* AgentService._generate_follow_ups builds a dict literal with the key
\* QueryType.COMPLIANCE_AUDIT on every call
AgentService_generate_follow_ups(query_type) ==
  IF HasMember("COMPLIANCE_AUDIT")
  THEN [raised |-> FALSE, error |-> None]
  ELSE [raised |-> TRUE, error |-> "AttributeError"]

\* AgentService.process_query from "try: query_analysis = ..." on; every
\* exception leaves as AgentSessionError. Gives the run, the servers and the
\* store afterwards.
AgentService_simple_pipeline(query, session_id, ext, llm, srv, st, up) ==
  LET analysis == AgentService_analysis[query]
      t == AgentService_call_tools(analysis.tools, ext, srv)
      response_content == "llm_answer"
      confidence == AgentService_calculate_confidence_score(
                      t.tools_used, Len(analysis.tools), analysis.type)
      st2 == IF session_id # None
             THEN AgentService_update_session_context(
                    st, up, session_id, query, response_content, t.tool_results)
             ELSE st
      follow_ups == AgentService_generate_follow_ups(analysis.type)
  IN IF analysis.raised
     THEN [run |-> Run("raised", AgentSessionError(analysis.error), "simple", analysis,
                       NoTools, FALSE, FALSE, Rat(0, 100), None, None),
           servers |-> srv, store |-> st]
     ELSE IF llm = "fail"
     THEN [run |-> Run("raised", AgentSessionError("GeminiAPIError"), "simple", analysis,
                       t, TRUE, FALSE, Rat(0, 100), None, None),
           servers |-> t.servers, store |-> st]
     ELSE IF follow_ups.raised
     THEN [run |-> Run("raised", AgentSessionError(follow_ups.error), "simple", analysis,
                       t, TRUE, TRUE, confidence, None, None),
           servers |-> t.servers, store |-> st2]
     ELSE IF ~ValidConfidence(confidence)
     THEN [run |-> Run("raised", AgentSessionError("ValidationError"), "simple", analysis,
                       t, TRUE, TRUE, confidence, None, None),
           servers |-> t.servers, store |-> st2]
     ELSE [run |-> Run("returned", NoError, "simple", analysis, t,
                       TRUE, TRUE, confidence, analysis.type, response_content),
           servers |-> t.servers, store |-> st2]

\* AgentService.process_query: with use_langgraph the graph's result is
\* returned unless building the AgentQueryResponse from it raises, and then
\* the simple pipeline runs
AgentService_process_query(query, session_id, use_langgraph, ext, llm, risk, srv, st, up) ==
  LET graph_result == SpectraQGraph_process_query(query, ext, llm, risk, srv)
      built == /\ ValidConfidence(graph_result.confidence_score)
               /\ graph_result.compliance_audit.present => HasMember("COMPLIANCE_AUDIT")
      rest == SubSeq(ext, SpectraQGraph_calls(query) + 1, Len(ext))
  IN IF ~use_langgraph
     THEN AgentService_simple_pipeline(query, session_id, ext, llm, srv, st, up)
     ELSE IF built
     THEN [run |-> Run("returned", NoError, "langgraph", NoAnalysis, NoTools,
                       FALSE, TRUE, graph_result.confidence_score,
                       IF graph_result.compliance_audit.present
                       THEN Member("COMPLIANCE_AUDIT") ELSE QueryType.GENERAL_CRYPTO,
                       graph_result.response),
           servers |-> graph_result.servers, store |-> st]
     ELSE AgentService_simple_pipeline(query, session_id, rest, llm,
                                       graph_result.servers, st, up)

\* the number of call_tool invocations of AgentService.process_query
AgentService_calls(query, use_langgraph) ==
  LET a == AgentService_analysis[query]
  IN IF use_langgraph THEN SpectraQGraph_calls(query) + Len(a.tools)
     ELSE Len(a.tools)

\* the loop over required_tools of AgentServiceMVP.process_query: a call that
\* raises is recorded as a ToolCall with its error
RECURSIVE AgentServiceMVP_tool_loop(_, _, _, _)
AgentServiceMVP_tool_loop(required_tools, registered, i, acc) ==
  IF i > Len(required_tools) THEN acc
  ELSE LET tool_info == required_tools[i]
           call == MCPManagerMVP_call_tool(registered, tool_info.server, tool_info.tool,
                                           tool_info.parameters)
           symbol == DictGet(tool_info.parameters, "symbol", <<"BTC">>)[1]
           tool_key == IF tool_info.tool = "get_coin_price"
                       THEN <<"get_coin_price_", symbol>>
                       ELSE <<tool_info.tool>>
       IN AgentServiceMVP_tool_loop(required_tools, registered, i + 1,
            IF call.raised
            THEN [acc EXCEPT !.calls = Append(@, "failed"),
                             !.invoked = Append(@, Invocation(tool_info)),
                             !.tools_used =
                               Append(@, ToolCall(tool_info, NoResult, call.error))]
            ELSE [calls |-> Append(acc.calls,
                                   IF call.result.kind = "error_dict"
                                   THEN "failed" ELSE "ok"),
                  tools_used |-> Append(acc.tools_used,
                                        ToolCall(tool_info, call.result, None)),
                  tool_results |-> DictSet(acc.tool_results, tool_key, call.result),
                  data_sources |-> Append(acc.data_sources, tool_info.server),
                  invoked |-> Append(acc.invoked, Invocation(tool_info))])

\* AgentServiceMVP.process_query. Gives the run and the sessions afterwards.
AgentServiceMVP_process_query(query, session_id, registered, ss) ==
  LET analysis == AgentServiceMVP_analysis[query]
      t == AgentServiceMVP_tool_loop(analysis.tools, registered, 1, NoTools)
      response_content == "mock_report"
      confidence == AgentServiceMVP_calculate_confidence_score(
                      t.tools_used, Len(analysis.tools), analysis.type)
      ss2 == IF session_id # None
             THEN AgentServiceMVP_update_session_context(
                    ss, session_id, query, response_content, t.tool_results)
             ELSE ss
  IN IF analysis.raised
     THEN [run |-> Run("raised", AgentSessionError(analysis.error), "simple", analysis,
                       NoTools, FALSE, FALSE, Rat(0, 100), None, None),
           sessions |-> ss]
     ELSE IF ~ValidConfidence(confidence)
     THEN [run |-> Run("raised", AgentSessionError("ValidationError"), "simple", analysis,
                       t, TRUE, TRUE, confidence, None, None),
           sessions |-> ss2]
     ELSE [run |-> Run("returned", NoError, "simple", analysis, t,
                       TRUE, TRUE, confidence, analysis.type, response_content),
           sessions |-> ss2]

\* ---- state --------------------------------------------------------------
\* MCPManager() as constructed: no server registered
FreshServers == [n \in ServerNames |-> [status |-> "absent", error_count |-> 0]]

\* after MCPManager.initialize() with every configured server started
AllRunning == [n \in ServerNames |-> [status |-> "running", error_count |-> 0]]

\* after MCPManager.initialize() with servers that failed to start
Degraded ==
  [n \in ServerNames |->
     [status |-> CASE n = "coingecko" -> "running"
                   [] n = "feargreed" -> "stopped"
                   [] n = "cryptopanic" -> "error"
                   [] OTHER -> "absent",
      error_count |-> 0]]

ServerConfigs == {FreshServers, AllRunning, Degraded}

\* the audit tool's answers: risk_score missing, -1.0, 0.0, 1.0, 4.0
RiskAnswers == {Audit(FALSE, 0), Audit(TRUE, -10), Audit(TRUE, 0), Audit(TRUE, 10),
                Audit(TRUE, 40)}

Op(op, svc, query, session_id, use_langgraph, run) ==
  [op |-> op, svc |-> svc, query |-> query, session_id |-> session_id,
   use_langgraph |-> use_langgraph, run |-> run]

Idle == Op("none", None, <<>>, None, FALSE, NoRun)

NoFirst == [svc |-> None, query |-> <<>>, count |-> 0, at |-> 0, analysis |-> NoAnalysis]

\* no estimator call is followed
NoEstimate ==
  [svc |-> None, tools_used |-> <<>>, required_tools |-> 0, query_type |-> None,
   applied |-> FALSE, value |-> Rat(0, 100)]

NoSessions == [s \in SessionIds |-> NoSession]

Init ==
  /\ impl \in {"redis", "mvp"}
  /\ servers \in (IF impl = "redis" THEN ServerConfigs ELSE {FreshServers})
  /\ mvp_servers \in (IF impl = "mvp" THEN {{}, MockServerNames} ELSE {{}})
  /\ redis_up \in (IF impl = "redis" THEN BOOLEAN ELSE {FALSE})
  /\ store = NoSessions
  /\ sessions = NoSessions
  /\ requests = 0
  /\ last = Idle
  /\ first = NoFirst
  /\ estimate = NoEstimate

\* ---- operations ---------------------------------------------------------
\* AgentService.create_session: the uuid names no stored session; without
\* Redis nothing is stored
RedisCreateSession(sid) ==
  /\ impl = "redis"
  /\ requests < MaxRequests
  /\ requests' = requests + 1
  /\ ~store[sid].exists
  /\ store' = IF redis_up THEN [store EXCEPT ![sid] = NewSession(SessionTTL)] ELSE store
  /\ last' = Op("create_session", "redis", <<>>, sid, FALSE, NoRun)
  /\ UNCHANGED <<impl, servers, mvp_servers, redis_up, sessions, first, estimate>>

\* AgentServiceMVP.create_session
MvpCreateSession(sid) ==
  /\ impl = "mvp"
  /\ requests < MaxRequests
  /\ requests' = requests + 1
  /\ ~sessions[sid].exists
  /\ sessions' = [sessions EXCEPT ![sid] = NewSession(0)]
  /\ last' = Op("create_session", "mvp", <<>>, sid, FALSE, NoRun)
  /\ UNCHANGED <<impl, servers, mvp_servers, redis_up, store, first, estimate>>

\* AgentService.process_query(query, session_id, use_langgraph=...)
RedisProcessQuery(query, session_id, use_langgraph, ext, llm, risk) ==
  /\ impl = "redis"
  /\ requests < MaxRequests
  /\ requests' = requests + 1
  /\ \E r \in {AgentService_process_query(query, session_id, use_langgraph, ext, llm, risk,
                                            servers, store, redis_up)} :
     /\ servers' = r.servers
     /\ store' = r.store
     /\ last' = Op("process_query", "redis", query, session_id, use_langgraph, r.run)
     /\ UNCHANGED <<impl, mvp_servers, redis_up, sessions, first, estimate>>

\* AgentServiceMVP.process_query(query, session_id)
MvpProcessQuery(query, session_id) ==
  /\ impl = "mvp"
  /\ requests < MaxRequests
  /\ requests' = requests + 1
  /\ \E r \in {AgentServiceMVP_process_query(query, session_id, mvp_servers, sessions)} :
     /\ sessions' = r.sessions
     /\ last' = Op("process_query", "mvp", query, session_id, FALSE, r.run)
     /\ UNCHANGED <<impl, servers, mvp_servers, redis_up, store, first, estimate>>

\* the inputs of one AgentService.process_query call
RedisProcessAny(QS) ==
  /\ impl = "redis"
  /\ requests < MaxRequests
  /\ \E query \in QS, session_id \in SessionIds \cup {None}, use_langgraph \in BOOLEAN,
     llm \in {"ok", "fail"} :
    \E ext \in [1..AgentService_calls(query, use_langgraph) -> {"ok", "fail"}] :
      \E risk \in (IF use_langgraph
                      /\ SpectraQGraph_calls(query) > 0 THEN RiskAnswers
                   ELSE {NoAudit}) :
        RedisProcessQuery(query, session_id, use_langgraph, ext, llm, risk)

MvpProcessAny(QS) ==
  /\ impl = "mvp"
  /\ requests < MaxRequests
  /\ \E query \in QS, session_id \in SessionIds \cup {None} :
    MvpProcessQuery(query, session_id)

Next ==
  \/ \E sid \in SessionIds : RedisCreateSession(sid)
  \/ \E sid \in SessionIds : MvpCreateSession(sid)
  \/ RedisProcessAny(PipelineQueries)
  \/ MvpProcessAny(PipelineQueries)

Spec == Init /\ [][Next]_vars

\* ---- the classifier on its own ------------------------------------------
\* a classifier that reads the service: after a call of the API it returns
\* no tools
AnalysisOf_stateful(svc, q) ==
  LET a == CASE svc = "redis" -> AgentService_analyze_query(Text(q))
             [] svc = "mvp"   -> AgentServiceMVP_analyze_query(Text(q))
             [] svc = "graph" -> SpectraQGraph_analyze_query(Text(q))
  IN IF requests > 0 THEN [a EXCEPT !.tools = <<>>, !.confidence = [num |-> 0, den |-> 10]]
     ELSE a

\* self._analyze_query(query) of the class svc
AnalysisOf(svc, q) ==
  CASE svc = "redis" -> AgentService_analyze_query(Text(q))
    [] svc = "mvp"   -> AgentServiceMVP_analyze_query(Text(q))
    [] svc = "graph" -> SpectraQGraph_analyze_query(Text(q))

\* the classifiers an AgentService (with its SpectraQGraph) or an
\* AgentServiceMVP holds
ClassifiersOf(i) == IF i = "redis" THEN {"redis", "graph"} ELSE {"mvp"}

FirstInputs(i, QS) ==
  { [svc |-> s, query |-> q, count |-> 0, at |-> 0, analysis |-> NoAnalysis] :
      s \in ClassifiersOf(i), q \in QS }

\* one call of _analyze_query on the followed input: reads the query only;
\* count stops at 2
AnalyzeQuery ==
  /\ first.svc # None
  /\ \E a \in {AnalysisOf(first.svc, first.query)} :
       /\ first' = IF first.count = 0
                   THEN [first EXCEPT !.count = 1, !.at = requests, !.analysis = a]
                   ELSE [first EXCEPT !.count = 2]
       /\ last' = Op("analyze_query", first.svc, first.query, None, FALSE,
                     Run(IF a.raised THEN "raised" ELSE "returned",
                         IF a.raised THEN <<a.error>> ELSE NoError,
                         "classifier", a, NoTools, FALSE, FALSE, Rat(0, 100),
                         None, None))
  /\ UNCHANGED <<impl, servers, mvp_servers, redis_up, store, sessions, requests,
                 estimate>>

InitClassifier ==
  /\ impl \in {"redis", "mvp"}
  /\ servers = FreshServers
  /\ mvp_servers = {}
  /\ redis_up = FALSE
  /\ store = NoSessions
  /\ sessions = NoSessions
  /\ requests = 0
  /\ last = Idle
  /\ first \in FirstInputs(impl, Queries)
  /\ estimate = NoEstimate

NextClassifier == AnalyzeQuery

SpecClassifier == InitClassifier /\ [][NextClassifier]_vars

\* ---- the classifier between the calls of the API ------------------------
PurityQueries == { <<"hello">>, <<"price", "latest_news">> }

InitPurity ==
  /\ impl \in {"redis", "mvp"}
  /\ servers = (IF impl = "redis" THEN AllRunning ELSE FreshServers)
  /\ mvp_servers = (IF impl = "mvp" THEN MockServerNames ELSE {})
  /\ redis_up = (impl = "redis")
  /\ store = NoSessions
  /\ sessions = NoSessions
  /\ requests = 0
  /\ last = Idle
  /\ first \in FirstInputs(impl, PipelineQueries)
  /\ estimate = NoEstimate

NextPurity ==
  \/ AnalyzeQuery
  \/ \E sid \in SessionIds : RedisCreateSession(sid)
  \/ \E sid \in SessionIds : MvpCreateSession(sid)
  \/ RedisProcessAny(PurityQueries)
  \/ MvpProcessAny(PurityQueries)

SpecPurity == InitPurity /\ [][NextPurity]_vars

\* ---- the estimator on its own -------------------------------------------
\* ToolCall.error: unset, empty, a message
ErrorValues == {None, "", "timeout"}

ToolsUsedInputs ==
  UNION { [1..n -> { ToolCall(Tool("coingecko", "get_coin_price", <<>>), NoResult, e) :
                       e \in ErrorValues }] : n \in 0..MaxToolsUsed }

\* self._calculate_confidence_score(tools_used, required_tools, query_type)
CalculateConfidence ==
  /\ estimate.svc # None
  /\ ~estimate.applied
  /\ estimate' =
       [estimate EXCEPT
          !.applied = TRUE,
          !.value = IF estimate.svc = "redis"
                    THEN AgentService_calculate_confidence_score(
                           estimate.tools_used, estimate.required_tools,
                           estimate.query_type)
                    ELSE AgentServiceMVP_calculate_confidence_score(
                           estimate.tools_used, estimate.required_tools,
                           estimate.query_type)]
  /\ UNCHANGED <<impl, servers, mvp_servers, redis_up, store, sessions, requests,
                 last, first>>

InitConfidence ==
  /\ impl \in {"redis", "mvp"}
  /\ servers = FreshServers
  /\ mvp_servers = {}
  /\ redis_up = FALSE
  /\ store = NoSessions
  /\ sessions = NoSessions
  /\ requests = 0
  /\ last = Idle
  /\ first = NoFirst
  /\ estimate \in [svc : {impl}, tools_used : ToolsUsedInputs,
                   required_tools : 0..MaxRequired, query_type : QueryTypeValues,
                   applied : {FALSE}, value : {Rat(0, 100)}]

NextConfidence == CalculateConfidence

SpecConfidence == InitConfidence /\ [][NextConfidence]_vars

\* ---- what the properties are stated with --------------------------------
\* the phrases that start with one of the greetings of AgentServiceMVP
GreetingPhrases == {"hello", "hi_there", "history", "padded_hey"}

\* the query equals, or starts with, a greeting (leading blanks stripped)
GreetingQuery(q) == q[1] \in GreetingPhrases

\* the keyword categories of each classifier, in the order it tests them:
\* <<the category's words, the type the category assigns>>
RedisCategories ==
  << <<RedisPriceWords, QueryType.PRICE_PREDICTION>>,
     <<RedisSentimentWords, QueryType.NEWS_SENTIMENT>>,
     <<RedisNewsWords, QueryType.NEWS_SENTIMENT>>,
     <<RedisWhaleWords, QueryType.ON_CHAIN_ANALYSIS>>,
     <<RedisComplianceWords, "compliance_audit">> >>

MvpCategories ==
  << <<MvpPriceWords, QueryType.PRICE_PREDICTION>>,
     <<MvpSentimentWords, QueryType.MARKET_ANALYSIS>>,
     <<MvpNewsWords, QueryType.NEWS_SENTIMENT>>,
     <<MvpAnalysisWords, QueryType.MARKET_ANALYSIS>> >>

GraphCategories ==
  << <<GraphPriceWords, QueryType.PRICE_PREDICTION>>,
     <<GraphSentimentWords, QueryType.NEWS_SENTIMENT>>,
     <<GraphWhaleWords, QueryType.ON_CHAIN_ANALYSIS>>,
     <<GraphComplianceWords, "compliance_audit">> >>

CategoriesOf(svc) ==
  CASE svc = "redis" -> RedisCategories
    [] svc = "mvp"   -> MvpCategories
    [] svc = "graph" -> GraphCategories

\* the text the classifier svc tests its keywords on
TestedText(svc, q) ==
  IF svc = "mvp" THEN Strip(Lower(Text(q))) ELSE Lower(Text(q))

\* the positions of the categories of svc that the query matches
Matching(svc, q) ==
  { i \in 1..Len(CategoriesOf(svc)) : AnyIn(CategoriesOf(svc)[i][1], TestedText(svc, q)) }

SetMax(S) == CHOOSE x \in S : \A y \in S : y <= x

\* the type of the first, and of the last, matching category
FirstMatchType(svc, q) ==
  IF Matching(svc, q) = {} THEN QueryType.GENERAL_CRYPTO
  ELSE CategoriesOf(svc)[SetMin(Matching(svc, q))][2]

LastMatchType(svc, q) ==
  IF Matching(svc, q) = {} THEN QueryType.GENERAL_CRYPTO
  ELSE CategoriesOf(svc)[SetMax(Matching(svc, q))][2]

\* the enumeration as the specification lists it
ClaimedQueryTypes == QueryTypeValues \cup {"compliance_audit"}

\* the fixed default tool set
DefaultTools ==
  << Tool("coingecko", "get_coin_price", << <<"symbol", <<"BTC">> >> >>),
     Tool("feargreed", "get_fear_greed_index", <<>>) >>

Classified == last.op = "analyze_query"

Processed == last.op = "process_query" /\ last.run.path = "simple"

AllCallsOk == \A i \in 1..Len(last.run.calls) : last.run.calls[i] = "ok"

\* ---- C1 -----------------------------------------------------------------
\* C1: every confidence_score a process_query call computed with an estimator
\* lies within [0, 1], and every response it returned (Redis-backed pipeline,
\* MVP pipeline, LangGraph path) carries a confidence_score within [0, 1].
C1_ConfidenceWithinUnitInterval ==
  last.op = "process_query" =>
    /\ last.run.scored => ValidConfidence(last.run.confidence)
    /\ last.run.outcome = "returned" =>
         last.run.scored /\ ValidConfidence(last.run.confidence)

\* a returned response whose tool calls partly failed
C1_Witness ==
  /\ last.op = "process_query"
  /\ last.run.outcome = "returned"
  /\ Len(last.run.calls) >= 2
  /\ \E i \in 1..Len(last.run.calls) : last.run.calls[i] = "failed"
  /\ last.run.confidence.num > 0

\* ---- C2 -----------------------------------------------------------------
\* the entries of tools_used whose error is unset or empty
SuccessfulCount(tools_used) ==
  Cardinality({ i \in 1..Len(tools_used) :
                  tools_used[i].error = None \/ tools_used[i].error = "" })

\* C2: the estimator's value is determined by its three arguments: 0.7 when
\* required_tools = 0, else min(ceiling, successful / required * weight) with
\* the per-type weight table of the class (0.7 for a type the table has not);
\* two required tools with one failure of two entries give 0.5 * weight; and
\* the call changes nothing of the service.
C2_EstimatorIsPure ==
  estimate.applied =>
    LET n_ok    == SuccessfulCount(estimate.tools_used)
        req     == estimate.required_tools
        table   == IF estimate.svc = "redis" THEN RedisTypeConfidence
                   ELSE MvpTypeConfidence
        w       == IF estimate.query_type \in DOMAIN table
                   THEN table[estimate.query_type] ELSE 70
        ceiling == IF estimate.svc = "redis" THEN 95 ELSE 90
    IN /\ req = 0 => estimate.value = Rat(70, 100)
       /\ req > 0 /\ n_ok * w <= ceiling * req =>
            RatEq(estimate.value, Rat(n_ok * w, req * 100))
       /\ req > 0 /\ n_ok * w > ceiling * req =>
            RatEq(estimate.value, Rat(ceiling, 100))
       /\ req = 2 /\ Len(estimate.tools_used) = 2 /\ n_ok = 1 =>
            RatEq(estimate.value, Rat(w, 200))
       /\ servers = FreshServers /\ mvp_servers = {} /\ store = NoSessions
       /\ sessions = NoSessions /\ requests = 0 /\ last = Idle /\ first = NoFirst

\* two required tools, two entries, one of them failed
C2_Witness ==
  /\ estimate.applied
  /\ estimate.required_tools = 2
  /\ Len(estimate.tools_used) = 2
  /\ estimate.tools_used[1].error = None
  /\ estimate.tools_used[2].error = "timeout"
  /\ estimate.value.num > 0

\* ---- C3 -----------------------------------------------------------------
\* C3: _analyze_query never raises, and the type it returns is one of market
\* analysis, price prediction, news sentiment, on-chain analysis, general,
\* trading advice, compliance audit.
C3_ClassifierNeverFails ==
  Classified =>
    /\ ~last.run.analysis.raised
    /\ last.run.analysis.type \in ClaimedQueryTypes

\* ---- C4 -----------------------------------------------------------------
\* C4 as stated: a query with no recognized keyword that is no greeting is
\* classified general with the fixed, non-empty default tool set.
C4_FallbackToolsEverywhere ==
  Classified /\ last.svc \in {"redis", "mvp"} /\ Matching(last.svc, last.query) = {}
    /\ ~GreetingQuery(last.query) =>
      /\ ~last.run.analysis.raised
      /\ last.run.analysis.type = QueryType.GENERAL_CRYPTO
      /\ last.run.analysis.tools # <<>>
      /\ last.run.analysis.tools = DefaultTools

\* C4 amended: a query with no recognized keyword that is no greeting is
\* classified general; AgentServiceMVP returns the fixed default tool set
\* (coingecko get_coin_price BTC, feargreed get_fear_greed_index), the
\* Redis-backed AgentService returns an empty tool list.
C4_FallbackToolsInMvpOnly ==
  Classified /\ last.svc \in {"redis", "mvp"} /\ Matching(last.svc, last.query) = {}
    /\ ~GreetingQuery(last.query) =>
      /\ ~last.run.analysis.raised
      /\ last.run.analysis.type = QueryType.GENERAL_CRYPTO
      /\ last.svc = "mvp" => last.run.analysis.tools = DefaultTools
      /\ last.svc = "redis" => last.run.analysis.tools = <<>>

\* AgentServiceMVP classified a keyword-free query of two phrases
C4_Witness ==
  /\ Classified
  /\ last.svc = "mvp"
  /\ last.query = <<"joke", "thanks">>
  /\ last.run.analysis.tools = DefaultTools

C6_GreetingShortCircuitEverywhere ==
  Processed /\ GreetingQuery(last.query) =>
    /\ ~last.run.analysis.raised
    /\ last.run.analysis.type = QueryType.GENERAL_CRYPTO
    /\ last.run.analysis.tools = <<>>
    /\ last.run.calls = <<>>
    /\ last.run.tool_results = <<>>
    /\ last.run.synthesized

\* C6 amended: AgentServiceMVP classifies a query that equals or starts with a
\* greeting as general with zero tools, whatever follows; its process_query
\* then issues no tool call, synthesizes with an empty tool-result mapping and
\* returns. The Redis-backed AgentService has no greeting test: it classifies a
\* greeting by the keywords that follow, so only a greeting without keywords
\* gets general and zero tools (no tool call, synthesis reached, and the call
\* then raises AgentSessionError); with keywords it raises in the classifier or
\* issues one call per descriptor.
C6_GreetingShortCircuitInMvp ==
  Processed /\ GreetingQuery(last.query) =>
    /\ last.svc = "mvp" =>
         /\ ~last.run.analysis.raised
         /\ last.run.analysis.type = QueryType.GENERAL_CRYPTO
         /\ last.run.analysis.tools = <<>>
         /\ last.run.calls = <<>>
         /\ last.run.tool_results = <<>>
         /\ last.run.synthesized
         /\ last.run.outcome = "returned"
    /\ last.svc = "redis" /\ Matching("redis", last.query) = {} =>
         /\ last.run.analysis.type = QueryType.GENERAL_CRYPTO
         /\ last.run.analysis.tools = <<>>
         /\ last.run.calls = <<>>
         /\ last.run.tool_results = <<>>
         /\ last.run.synthesized
         /\ last.run.outcome = "raised"
    /\ last.svc = "redis" /\ Matching("redis", last.query) # {} =>
         \/ last.run.analysis.raised
         \/ /\ last.run.analysis.tools # <<>>
            /\ Len(last.run.calls) = Len(last.run.analysis.tools)

\* AgentServiceMVP answered a greeting followed by a price keyword
C6_Witness ==
  /\ Processed
  /\ last.svc = "mvp"
  /\ last.query = <<"hi_there", "price">>
  /\ last.run.outcome = "returned"
  /\ last.run.calls = <<>>

\* ---- C7 -----------------------------------------------------------------
\* C7 as stated: the returned query_type is that of the first matching
\* category in the order the classifier tests them.
C7_FirstMatchWins ==
  Classified /\ ~(last.svc = "mvp" /\ GreetingQuery(last.query)) =>
    /\ ~last.run.analysis.raised
    /\ last.run.analysis.type = FirstMatchType(last.svc, last.query)

\* C7 amended: AgentService and AgentServiceMVP return the type of the last
\* matching category in the order tested (each match overwrites the type), and
\* AgentService raises AttributeError whenever the compliance category matches;
\* AgentServiceMVP returns general for a greeting whatever matches; only the
\* if/elif chain of SpectraQGraph returns the type of the first matching
\* category, raising AttributeError when that one is compliance.
C7_LastMatchWins ==
  Classified =>
    LET q == last.query
        a == last.run.analysis
    IN /\ last.svc = "redis" =>
            IF 5 \in Matching("redis", q) THEN a.raised
            ELSE ~a.raised /\ a.type = LastMatchType("redis", q)
       /\ last.svc = "mvp" =>
            /\ ~a.raised
            /\ a.type = IF GreetingQuery(q) THEN QueryType.GENERAL_CRYPTO
                        ELSE LastMatchType("mvp", q)
       /\ last.svc = "graph" =>
            IF FirstMatchType("graph", q) = "compliance_audit" THEN a.raised
            ELSE ~a.raised /\ a.type = FirstMatchType("graph", q)

\* AgentService classified a query that matches price, then news
C7_Witness ==
  /\ Classified
  /\ last.svc = "redis"
  /\ last.query = <<"price", "latest_news">>
  /\ Matching("redis", last.query) = {1, 3}
  /\ last.run.analysis.type = QueryType.NEWS_SENTIMENT

\* ---- C8 -----------------------------------------------------------------
\* the parameters {symbol: <symbol>}
SymbolIs(tool_info, symbol) == tool_info.parameters = << <<"symbol", <<symbol>> >> >>

\* C8 as stated: "What's the price of BTC?" is classified PRICE_PREDICTION,
\* the first descriptor is coingecko get_coin_price {symbol: BTC}, and when
\* every call succeeds the response's confidence is 0.70.
C8_PriceQueryScoresSeventy ==
  Processed /\ last.query = <<"price_btc">> =>
    /\ ~last.run.analysis.raised
    /\ last.run.analysis.type = QueryType.PRICE_PREDICTION
    /\ last.run.analysis.tools[1].server = "coingecko"
    /\ last.run.analysis.tools[1].tool = "get_coin_price"
    /\ SymbolIs(last.run.analysis.tools[1], "BTC")
    /\ AllCallsOk /\ last.run.error # AgentSessionError("GeminiAPIError") =>
         /\ last.run.outcome = "returned"
         /\ RatEq(last.run.confidence, Rat(70, 100))

\* C8 amended: "What's the price of BTC?" is classified PRICE_PREDICTION with
\* first descriptor coingecko get_coin_price by both services. AgentServiceMVP
\* gives it {symbol: BTC} and, every call succeeding, returns a response with
\* confidence min(0.90, 1.0 * 0.75) = 0.75. The Redis-backed AgentService gives
\* it {symbol: bitcoin}, computes min(0.95, 1.0 * 0.7) = 0.70 when every call
\* succeeds, and raises AgentSessionError instead of returning.
C8_PriceQueryPerService ==
  Processed /\ last.query = <<"price_btc">> =>
    /\ ~last.run.analysis.raised
    /\ last.run.analysis.type = QueryType.PRICE_PREDICTION
    /\ last.run.analysis.tools[1].server = "coingecko"
    /\ last.run.analysis.tools[1].tool = "get_coin_price"
    /\ last.svc = "mvp" =>
         /\ SymbolIs(last.run.analysis.tools[1], "BTC")
         /\ AllCallsOk => /\ last.run.outcome = "returned"
                          /\ RatEq(last.run.confidence, Rat(75, 100))
    /\ last.svc = "redis" =>
         /\ SymbolIs(last.run.analysis.tools[1], "bitcoin")
         /\ AllCallsOk /\ last.run.scored => RatEq(last.run.confidence, Rat(70, 100))
         /\ last.run.outcome = "raised"

\* AgentServiceMVP answered the price query with both calls succeeding
C8_Witness ==
  /\ Processed
  /\ last.svc = "mvp"
  /\ last.query = <<"price_btc">>
  /\ Len(last.run.calls) = 2
  /\ AllCallsOk
  /\ last.run.outcome = "returned"

\* ---- C9 -----------------------------------------------------------------
\* C9: whichever tool calls fail, a process_query whose classifier returned and
\* whose completion did not fail reaches synthesis and returns a response.
C9_ToolFailureNeverAborts ==
  Processed /\ ~last.run.analysis.raised
    /\ last.run.error # AgentSessionError("GeminiAPIError") =>
      /\ last.run.synthesized
      /\ last.run.outcome = "returned"

\* ---- C10 ----------------------------------------------------------------
\* C10: tools_used has one entry per required tool call, in call order; the
\* entry of a failed call has its error set, the entry of a successful call
\* has it unset.
C10_OneEntryPerCall ==
  Processed /\ ~last.run.analysis.raised =>
    /\ Len(last.run.calls) = Len(last.run.analysis.tools)
    /\ Len(last.run.tools_used) = Len(last.run.analysis.tools)
    /\ \A i \in 1..Len(last.run.tools_used) :
         /\ last.run.tools_used[i].tool_name =
              <<last.run.analysis.tools[i].server, last.run.analysis.tools[i].tool>>
         /\ (last.run.calls[i] = "failed") <=> (last.run.tools_used[i].error # None)

\* ---- C11 ----------------------------------------------------------------
\* the tool calls of the last run that succeeded
OkCalls == Cardinality({ i \in 1..Len(last.run.calls) : last.run.calls[i] = "ok" })

\* C11: the tool-result mapping holds only results of calls that succeeded; a
\* failed call adds no entry to it, is not recorded as a ToolCall without
\* error, and is not counted as successful by the confidence computation.
C11_OnlySuccessesInMapping ==
  Processed /\ ~last.run.analysis.raised =>
    /\ \A i \in 1..Len(last.run.tool_results) : last.run.tool_results[i][2].kind = "data"
    /\ Cardinality({ i \in 1..Len(last.run.tools_used) :
                       last.run.tools_used[i].error = None }) = OkCalls
    /\ Successful(last.run.tools_used) = OkCalls

\* ---- the dispatcher on its own ------------------------------------------
\* the tools and parameters call_tool is given
DispatchTools == {"get_coin_price", "get_news"}

DispatchParameters == { <<>>, << <<"symbol", <<"bitcoin">> >> >> }

\* what one call_tool call was given, the servers before it, and its outcome
CallRun(server_name, tool_name, parameters, before, call) ==
  [server_name |-> server_name, tool_name |-> tool_name, parameters |-> parameters,
   before |-> before, call |-> call]

\* await self.mcp_manager.call_tool(server_name, tool_name, parameters)
CallTool(server_name, tool_name, parameters, ext) ==
  /\ impl = "redis"
  /\ requests < MaxRequests
  /\ requests' = requests + 1
  /\ \E r \in {MCPManager_call_tool(servers, server_name, tool_name, parameters, ext)} :
       /\ servers' = r.servers
       /\ last' = Op("call_tool", "manager", <<>>, None, FALSE,
                     CallRun(server_name, tool_name, parameters, servers, r))
  /\ UNCHANGED <<impl, mvp_servers, redis_up, store, sessions, first, estimate>>

InitDispatch ==
  /\ impl = "redis"
  /\ servers \in ServerConfigs
  /\ mvp_servers = {}
  /\ redis_up = FALSE
  /\ store = NoSessions
  /\ sessions = NoSessions
  /\ requests = 0
  /\ last = Idle
  /\ first = NoFirst
  /\ estimate = NoEstimate

NextDispatch ==
  \E server_name \in ServerNames, tool_name \in DispatchTools,
     parameters \in DispatchParameters, ext \in {"ok", "fail"} :
    CallTool(server_name, tool_name, parameters, ext)

SpecDispatch == InitDispatch /\ [][NextDispatch]_vars

\* ---- C12 ----------------------------------------------------------------
\* C12: call_tool returns the tool's result or raises MCPServerError carrying
\* the requested server's name; for a server that is not registered or not
\* running it raises without attempting the HTTP request or the process I/O
\* and leaves every server as it was.
C12_TypedDispatchError ==
  last.op = "call_tool" =>
    LET c      == last.run.call
        status == last.run.before[last.run.server_name].status
    IN /\ c.raised =>
            /\ c.error_type = "MCPServerError"
            /\ c.server_name = last.run.server_name
       /\ ~c.raised =>
            /\ status = "running"
            /\ c.result = ToolResult("data", last.run.server_name, last.run.tool_name,
                                     last.run.parameters)
            /\ servers = last.run.before
       /\ status # "running" =>
            /\ c.raised
            /\ ~c.io
            /\ servers = last.run.before

\* a call to a registered server whose status is "error"
C12_Witness ==
  /\ last.op = "call_tool"
  /\ last.run.before[last.run.server_name].status = "error"
  /\ last.run.call.raised
  /\ requests = 2

\* ---- C13 ----------------------------------------------------------------
\* the distinct (tool, parameters) combinations of the calls that succeeded
SuccessfulCombinations ==
  { <<last.run.analysis.tools[i].tool, last.run.analysis.tools[i].parameters>> :
      i \in { j \in 1..Len(last.run.calls) : last.run.calls[j] = "ok" } }

\* C13: within one query the tool-result mapping has one entry per distinct
\* successful (tool, parameters) call: calls to the same tool with different
\* parameters are stored under distinct keys and none overwrites another.
C13_OneEntryPerCombination ==
  Processed /\ ~last.run.analysis.raised =>
    Len(last.run.tool_results) = Cardinality(SuccessfulCombinations)

\* ---- the session operations ---------------------------------------------
\* seconds that pass between two observations of the store
TickSeconds == 3600

\* what one session operation saw, left and returned; elapsed counts the
\* seconds since the key was last written
SessionRun(before, after, result, response, elapsed) ==
  [before |-> before, after |-> after, result |-> result, response |-> response,
   elapsed |-> elapsed]

\* AgentService.create_session: setex only "if self.redis"; the response is built either way
AgentService_create_session(st, up, sid) ==
  [result |-> "session",
   store |-> IF up THEN [st EXCEPT ![sid] = NewSession(SessionTTL)] ELSE st]

\* agent_service_simple.AgentService.create_session: self.redis.setex is not
\* guarded, so with self.redis None the AttributeError leaves the method
AgentServiceSimple_create_session(st, up, sid) ==
  IF up THEN [result |-> "session", store |-> [st EXCEPT ![sid] = NewSession(SessionTTL)]]
  ELSE [result |-> "raised", store |-> st]

\* AgentServiceMVP.create_session: self.sessions[session_id] = session_data
AgentServiceMVP_create_session(ss, sid) ==
  [result |-> "session", store |-> [ss EXCEPT ![sid] = NewSession(0)]]

\* AgentService.get_session
AgentService_get_session(st, up, sid) ==
  IF ~up THEN "not_found"
  ELSE IF ~st[sid].exists THEN "not_found"
  ELSE "found"

\* agent_service_simple.AgentService.get_session: the AttributeError of a None
\* client is caught by "except Exception"
AgentServiceSimple_get_session(st, up, sid) ==
  IF up /\ st[sid].exists THEN "found" ELSE "not_found"

\* AgentServiceMVP.get_session: self.sessions.get(session_id)
AgentServiceMVP_get_session(ss, sid) ==
  IF ss[sid].exists THEN "found" ELSE "not_found"

\* AgentService.delete_session: result > 0
AgentService_delete_session(st, up, sid) ==
  IF ~up THEN [result |-> "false", store |-> st]
  ELSE IF st[sid].exists THEN [result |-> "true", store |-> [st EXCEPT ![sid] = NoSession]]
  ELSE [result |-> "false", store |-> st]

\* agent_service_simple.AgentService.delete_session
AgentServiceSimple_delete_session(st, up, sid) ==
  IF up /\ st[sid].exists THEN [result |-> "true", store |-> [st EXCEPT ![sid] = NoSession]]
  ELSE [result |-> "false", store |-> st]

\* a context read that finds nothing
AgentService_get_session_context_empty(st, up, sid) == <<>>

\* AgentService._get_session_context: data.get("context", {}), then .get("history", [])
AgentService_get_session_context(st, up, sid) ==
  IF ~up THEN <<>>
  ELSE IF st[sid].exists THEN st[sid].history
  ELSE <<>>

\* the session the running service holds under sid
Held(sid) == IF impl = "mvp" THEN sessions[sid] ELSE store[sid]

\* the queries and responses of the exchanges a session went through
ExchangeQueries == << <<"hello">>, <<"price">>, <<"joke">> >>
ResponseTexts == {"answer", "mock_report"}

\* a created session after k exchanges were appended to it
RECURSIVE Exchanges(_, _)
Exchanges(svc, k) ==
  IF k = 0 THEN [s \in SessionIds |-> NewSession(IF svc = "mvp" THEN 0 ELSE SessionTTL)]
  ELSE IF svc = "mvp"
  THEN AgentServiceMVP_update_session_context(Exchanges(svc, k - 1), "s1",
         ExchangeQueries[(k % 3) + 1], "answer", <<>>)
  ELSE AgentService_update_session_context(Exchanges(svc, k - 1), TRUE, "s1",
         ExchangeQueries[(k % 3) + 1], "answer", <<>>)

\* no session yet, a new one, and one whose history is one short of, or at, the limit
StoredSessions(svc, limit) ==
  {NoSessions} \cup { Exchanges(svc, k) : k \in {0, limit - 1, limit} }

InitSession ==
  /\ impl \in {"redis", "simple", "mvp"}
  /\ servers = FreshServers
  /\ mvp_servers = {}
  /\ redis_up \in (IF impl = "mvp" THEN {FALSE} ELSE BOOLEAN)
  /\ store \in (IF impl = "redis" /\ redis_up THEN StoredSessions("redis", RedisHistoryLimit)
                ELSE IF impl = "simple" /\ redis_up THEN {NoSessions, Exchanges("simple", 0)}
                ELSE {NoSessions})
  /\ sessions \in (IF impl = "mvp" THEN StoredSessions("mvp", MvpHistoryLimit)
                   ELSE {NoSessions})
  /\ requests = 0
  /\ last = Op("none", None, <<>>, None, FALSE, SessionRun(NoSession, NoSession, "none", None, 0))
  /\ first = NoFirst
  /\ estimate = NoEstimate

\* create_session of the running service: the uuid names no held session
CreateSession(sid) ==
  /\ requests < MaxRequests
  /\ requests' = requests + 1
  /\ ~Held(sid).exists
  /\ \E r \in {IF impl = "redis" THEN AgentService_create_session(store, redis_up, sid)
               ELSE IF impl = "simple"
               THEN AgentServiceSimple_create_session(store, redis_up, sid)
               ELSE AgentServiceMVP_create_session(sessions, sid)} :
       /\ store' = IF impl = "mvp" THEN store ELSE r.store
       /\ sessions' = IF impl = "mvp" THEN r.store ELSE sessions
       /\ last' = Op("create_session", impl, <<>>, sid, FALSE,
                     SessionRun(Held(sid), r.store[sid], r.result, None, 0))
  /\ UNCHANGED <<impl, servers, mvp_servers, redis_up, first, estimate>>

\* get_session of the running service
GetSession(sid) ==
  /\ requests < MaxRequests
  /\ requests' = requests + 1
  /\ last' = Op("get_session", impl, <<>>, sid, FALSE,
                SessionRun(Held(sid), Held(sid),
                           IF impl = "redis" THEN AgentService_get_session(store, redis_up, sid)
                           ELSE IF impl = "simple"
                           THEN AgentServiceSimple_get_session(store, redis_up, sid)
                           ELSE AgentServiceMVP_get_session(sessions, sid),
                           None, last.run.elapsed))
  /\ UNCHANGED <<impl, servers, mvp_servers, redis_up, store, sessions, first, estimate>>

\* delete_session (AgentServiceMVP has none)
DeleteSession(sid) ==
  /\ impl # "mvp"
  /\ requests < MaxRequests
  /\ requests' = requests + 1
  /\ \E r \in {IF impl = "redis" THEN AgentService_delete_session(store, redis_up, sid)
               ELSE AgentServiceSimple_delete_session(store, redis_up, sid)} :
       /\ store' = r.store
       /\ last' = Op("delete_session", impl, <<>>, sid, FALSE,
                     SessionRun(store[sid], r.store[sid], r.result, None, last.run.elapsed))
  /\ UNCHANGED <<impl, servers, mvp_servers, redis_up, sessions, first, estimate>>

\* AgentService._get_session_context, the read a query with a session id makes
GetSessionContext(sid) ==
  /\ impl = "redis"
  /\ requests < MaxRequests
  /\ requests' = requests + 1
  /\ last' = Op("get_session_context", impl, <<>>, sid, FALSE,
                SessionRun(store[sid], store[sid],
                           IF AgentService_get_session_context(store, redis_up, sid) = <<>>
                           THEN "empty" ELSE "history",
                           None, last.run.elapsed))
  /\ UNCHANGED <<impl, servers, mvp_servers, redis_up, store, sessions, first, estimate>>

\* _update_session_context(session_id, query, response, {}) of the running service
AppendExchange(sid, query, response) ==
  /\ impl \in {"redis", "mvp"}
  /\ requests < MaxRequests
  /\ requests' = requests + 1
  /\ \E r \in {IF impl = "redis"
               THEN AgentService_update_session_context(store, redis_up, sid, query,
                                                        response, <<>>)
               ELSE AgentServiceMVP_update_session_context(sessions, sid, query,
                                                           response, <<>>)} :
       /\ store' = IF impl = "redis" THEN r ELSE store
       /\ sessions' = IF impl = "mvp" THEN r ELSE sessions
       /\ last' = Op("update_session_context", impl, query, sid, FALSE,
                     SessionRun(Held(sid), r[sid],
                                IF r[sid] = Held(sid) THEN "skipped" ELSE "appended",
                                response,
                                IF r[sid] = Held(sid) THEN last.run.elapsed ELSE 0))
  /\ UNCHANGED <<impl, servers, mvp_servers, redis_up, first, estimate>>

\* TickSeconds pass: Redis counts every key's time to live down and drops
\* the key when it reaches zero (SETEX)
Tick ==
  /\ impl # "mvp"
  /\ \E sid \in SessionIds : store[sid].exists
  /\ store' = [sid \in SessionIds |->
                 IF ~store[sid].exists THEN store[sid]
                 ELSE IF store[sid].ttl > TickSeconds
                 THEN [store[sid] EXCEPT !.ttl = @ - TickSeconds]
                 ELSE NoSession]
  /\ last' = [last EXCEPT !.run.elapsed = @ + TickSeconds]
  /\ UNCHANGED <<impl, servers, mvp_servers, redis_up, sessions, requests, first, estimate>>

NextSession ==
  \/ \E sid \in SessionIds : CreateSession(sid)
  \/ \E sid \in SessionIds : GetSession(sid)
  \/ \E sid \in SessionIds : DeleteSession(sid)
  \/ \E sid \in SessionIds : GetSessionContext(sid)
  \/ \E sid \in SessionIds, query \in {<<"hello">>, <<"price_btc">>}, response \in ResponseTexts :
       AppendExchange(sid, query, response)
  \/ Tick

SpecSession == InitSession /\ [][NextSession]_vars

\* ---- claims about sessions ----------------------------------------------
\* the N of the running service
HistoryLimit == IF impl = "mvp" THEN MvpHistoryLimit ELSE RedisHistoryLimit

\* the last operation appended an exchange to a session the service can reach
Appending ==
  /\ last.op = "update_session_context"
  /\ last.run.before.exists
  /\ (impl = "mvp" \/ redis_up)

\* the queries of a history, oldest first
QueriesOf(history) == [i \in 1..Len(history) |-> history[i].query]

\* C14: after any sequence of appends a session's history holds at most N
\* entries (20 in the Redis-backed service, 10 in the MVP service), and they
\* are the N most recently appended exchanges in the order they were appended.
C14_HistoryKeepsLastN ==
  /\ \A sid \in SessionIds : Len(Held(sid).history) <= HistoryLimit
  /\ Appending =>
       LET all == Append(QueriesOf(last.run.before.history), last.query)
           kept == QueriesOf(last.run.after.history)
           n == Len(kept)
       IN /\ n = (IF Len(all) <= HistoryLimit THEN Len(all) ELSE HistoryLimit)
          /\ \A i \in 1..n : kept[i] = all[Len(all) - n + i]

\* an exchange was appended to a full history, and the oldest one was dropped
C14_Witness ==
  /\ Appending
  /\ Len(last.run.before.history) = HistoryLimit
  /\ Len(last.run.after.history) = HistoryLimit
  /\ last.run.after.history[HistoryLimit].query = last.query

\* the history read back from the running service right now
ReadBack(sid) ==
  IF impl = "mvp" THEN sessions[sid].history
  ELSE AgentService_get_session_context(store, redis_up, sid)

\* the exchange was appended and nothing has happened to the session since
JustAppended == Appending /\ last.run.elapsed = 0

\* the entries before the last one are the most recent ones the session held
EarlierKept(history) ==
  LET before == last.run.before.history
      n == Len(history) - 1
  IN /\ n <= Len(before)
     /\ \A i \in 1..n : history[i] = before[Len(before) - n + i]

C16_TtlRefreshedByWritesOnly ==
  impl # "mvp" /\ redis_up =>
    /\ \A sid \in SessionIds :
         store[sid].exists =>
           /\ store[sid].ttl = SessionTTL - last.run.elapsed
           /\ store[sid].ttl > 0
    /\ last.run.elapsed >= SessionTTL => \A sid \in SessionIds : ~store[sid].exists
    /\ last.op \in {"create_session", "update_session_context"} /\ last.run.after.exists =>
         last.run.after.ttl = SessionTTL
    /\ last.op \in {"get_session", "get_session_context"} =>
         last.run.after = last.run.before
    /\ last.op = "get_session" =>
         /\ ~last.run.before.exists => last.run.result = "not_found"
         /\ last.run.before.exists => last.run.result = "found"

\* a session that was written, then only left alone for 2 hours, is not found
C16_Witness ==
  /\ impl = "redis"
  /\ redis_up
  /\ last.op = "get_session"
  /\ last.run.elapsed >= SessionTTL
  /\ ~last.run.before.exists
  /\ last.run.result = "not_found"
  /\ requests = 2

\* C17: with the session store absent the session operations are no-ops that
\* do not raise: create_session returns a valid session and persists nothing,
\* get_session returns not-found, delete_session returns false.
C17_AbsentStoreNoOps ==
  impl # "mvp" /\ ~redis_up =>
    /\ store = NoSessions
    /\ last.op = "create_session" => last.run.result = "session"
    /\ last.op = "get_session" => last.run.result = "not_found"
    /\ last.op = "delete_session" => last.run.result = "false"

\* C18: an absent session store is never fatal to a query: when the query
\* carries a session id and the store is absent, the context read yields the
\* empty context, the history append is skipped, and process_query (its
\* classifier and completion not failing) still returns its response.
C18_AbsentStoreNeverFatal ==
  Processed /\ last.svc = "redis" /\ last.session_id # None /\ ~redis_up
    /\ ~last.run.analysis.raised
    /\ last.run.error # AgentSessionError("GeminiAPIError") =>
      /\ AgentService_get_session_context(store, redis_up, last.session_id) = <<>>
      /\ store = NoSessions
      /\ last.run.outcome = "returned"

\* ---- the messages for the LLM -------------------------------------------
\* the longest stored history a message list is built from
MaxHistory == 7

\* [-5:] of _prepare_conversation_context: "Last 5 exchanges"
ContextWindow == 5

\* _prepare_conversation_context with no slice
AgentService_prepare_conversation_context_all(current_query, session_context) ==
  [current_query |-> current_query, session_history |-> session_context]

\* AgentService._prepare_conversation_context; session_context is the history
\* of the context read, [] when the context has none
AgentService_prepare_conversation_context(current_query, session_context) ==
  [current_query |-> current_query,
   session_history |-> LastN(session_context, ContextWindow)]

\* the first message: the f-string around the query type and json.dumps(tool_results),
\* or 'No additional data available' for an empty mapping
Framing(tool_results, query_type) ==
  [role |-> "user",
   content |-> [query_type |-> IF query_type = None THEN "general" ELSE query_type,
                no_data |-> tool_results = <<>>,
                data |-> tool_results]]

\* messages.extend([user, assistant]) for each exchange of session_history
RECURSIVE HistoryMessages(_)
HistoryMessages(session_history) ==
  IF session_history = <<>> THEN <<>>
  ELSE << [role |-> "user", content |-> Head(session_history).query],
          [role |-> "assistant", content |-> Head(session_history).response] >>
       \o HistoryMessages(Tail(session_history))

\* AgentService._build_llm_messages
AgentService_build_llm_messages(query, context, tool_results, query_type) ==
  << Framing(tool_results, query_type) >>
    \o HistoryMessages(context.session_history)
    \o << [role |-> "user", content |-> query] >>

\* what one construction of the message list read and built
MessagesRun(history, tool_results, query_type, messages) ==
  [history |-> history, tool_results |-> tool_results, query_type |-> query_type,
   messages |-> messages]

\* tool-result mappings of a query: none, and one price
MessageToolResults ==
  { <<>>, << <<"get_coin_price", ToolResult("data", "coingecko", "get_coin_price", <<>>)>> >> }

InitMessages ==
  /\ impl = "redis"
  /\ servers = FreshServers
  /\ mvp_servers = {}
  /\ redis_up \in BOOLEAN
  /\ store \in (IF redis_up THEN {NoSessions} \cup { Exchanges("redis", k) : k \in 0..MaxHistory }
                ELSE {NoSessions})
  /\ sessions = NoSessions
  /\ requests = 0
  /\ last = Op("none", None, <<>>, None, FALSE, MessagesRun(<<>>, <<>>, None, <<>>))
  /\ first = NoFirst
  /\ estimate = NoEstimate

\* lines 99-105 and 149-154 of process_query: read the context, prepare it,
\* build the messages
BuildMessages(query, session_id, tool_results, query_type) ==
  /\ requests < MaxRequests
  /\ requests' = requests + 1
  /\ \E history \in {IF session_id = None THEN <<>>
                     ELSE AgentService_get_session_context(store, redis_up, session_id)} :
       last' = Op("build_llm_messages", "redis", query, session_id, FALSE,
                  MessagesRun(history, tool_results, query_type,
                    AgentService_build_llm_messages(query,
                      AgentService_prepare_conversation_context(query, history),
                      tool_results, query_type)))
  /\ UNCHANGED <<impl, servers, mvp_servers, redis_up, store, sessions, first, estimate>>

NextMessages ==
  \E query \in {<<"hello">>, <<"price_btc">>}, session_id \in SessionIds \cup {None},
     tool_results \in MessageToolResults,
     query_type \in {None, QueryType.PRICE_PREDICTION, QueryType.GENERAL_CRYPTO} :
    BuildMessages(query, session_id, tool_results, query_type)

SpecMessages == InitMessages /\ [][NextMessages]_vars

Event(type, tool) == [type |-> type, tool |-> tool]

\* the events of the loop over required_tools: tool_result after a call that
\* returned, tool_error after one that raised
ToolEvents(required_tools, calls) ==
  [i \in 1..Len(calls) |->
     IF calls[i] = "ok" THEN Event("tool_result", required_tools[i].tool)
     ELSE Event("tool_error", None)]

\* GeminiClient.stream_completion yields one chunk: the whole completion, or
\* an empty delta with finish_reason "error" when chat_completion raised; the
\* loop of stream_query_response yields content for a chunk with a non-empty delta
ContentEvents(llm) == IF llm = "ok" THEN << Event("content", None) >> ELSE <<>>

\* what one stream_query_response yielded
StreamRun(analysis, calls, llm, events) ==
  [analysis |-> analysis, calls |-> calls, llm |-> llm, events |-> events]

\* stream_query_response without its except clause: the exception of
\* _analyze_query leaves the generator after start and analysis
AgentService_stream_query_response_uncaught(query, session_id, ext, llm, srv) ==
  LET analysis == AgentService_analysis[query]
      t == AgentService_call_tools(analysis.tools, ext, srv)
      opening == << Event("start", None), Event("analysis", None) >>
  IN IF analysis.raised
     THEN [run |-> StreamRun(analysis, <<>>, llm, opening), servers |-> srv]
     ELSE [run |-> StreamRun(analysis, t.calls, llm,
                     opening
                       \o (IF analysis.tools # <<>> THEN << Event("tools", None) >> ELSE <<>>)
                       \o ToolEvents(analysis.tools, t.calls)
                       \o << Event("generating", None) >>
                       \o ContentEvents(llm)
                       \o << Event("complete", None) >>),
           servers |-> t.servers]

\* AgentService.stream_query_response: an exception of _analyze_query ends the
\* sequence with one error event. Gives the run and the servers afterwards.
AgentService_stream_query_response(query, session_id, ext, llm, srv) ==
  LET analysis == AgentService_analysis[query]
      t == AgentService_call_tools(analysis.tools, ext, srv)
      opening == << Event("start", None), Event("analysis", None) >>
  IN IF analysis.raised
     THEN [run |-> StreamRun(analysis, <<>>, llm, opening \o << Event("error", None) >>),
           servers |-> srv]
     ELSE [run |-> StreamRun(analysis, t.calls, llm,
                     opening
                       \o (IF analysis.tools # <<>> THEN << Event("tools", None) >> ELSE <<>>)
                       \o ToolEvents(analysis.tools, t.calls)
                       \o << Event("generating", None) >>
                       \o ContentEvents(llm)
                       \o << Event("complete", None) >>),
           servers |-> t.servers]

InitStream ==
  /\ impl = "redis"
  /\ servers \in ServerConfigs
  /\ mvp_servers = {}
  /\ redis_up \in BOOLEAN
  /\ store \in (IF redis_up THEN {NoSessions, Exchanges("redis", 0), Exchanges("redis", 1)}
                ELSE {NoSessions})
  /\ sessions = NoSessions
  /\ requests = 0
  /\ last = Op("none", None, <<>>, None, FALSE, StreamRun(NoAnalysis, <<>>, "ok", <<>>))
  /\ first = NoFirst
  /\ estimate = NoEstimate

\* AgentService.stream_query_response(query, session_id), consumed to its end
StreamQuery(query, session_id, ext, llm) ==
  /\ requests < MaxRequests
  /\ requests' = requests + 1
  /\ \E r \in {AgentService_stream_query_response(query, session_id, ext, llm, servers)} :
       /\ servers' = r.servers
       /\ last' = Op("stream_query_response", "redis", query, session_id, FALSE, r.run)
  /\ UNCHANGED <<impl, mvp_servers, redis_up, store, sessions, first, estimate>>

NextStream ==
  \E query \in PipelineQueries, session_id \in SessionIds \cup {None}, llm \in {"ok", "fail"} :
    \E ext \in [1..Len(AgentService_analysis[query].tools) -> {"ok", "fail"}] :
      StreamQuery(query, session_id, ext, llm)

SpecStream == InitStream /\ [][NextStream]_vars

\* the types of the yielded events, in order
EventTypes == [i \in 1..Len(last.run.events) |-> last.run.events[i].type]

\* C20: a sequence of stream_query_response that does not end in the error
\* event is start, analysis, then (only with required tools) tools and one
\* tool_result or tool_error per required tool in classifier order, then
\* generating, then one or more content events, then complete: nothing is
\* repeated or out of order and complete follows at least one content event.
C20_StagedEventOrder ==
  last.op = "stream_query_response" /\ EventTypes[Len(EventTypes)] # "error" =>
    LET tools == last.run.analysis.tools
        k == Len(tools)
        o == IF k > 0 THEN 3 + k ELSE 2
        n == Len(EventTypes)
    IN /\ n >= o + 3
       /\ EventTypes[1] = "start"
       /\ EventTypes[2] = "analysis"
       /\ k > 0 => EventTypes[3] = "tools"
       /\ \A i \in 1..k :
            \/ EventTypes[3 + i] = "tool_error"
            \/ EventTypes[3 + i] = "tool_result" /\ last.run.events[3 + i].tool = tools[i].tool
       /\ EventTypes[o + 1] = "generating"
       /\ \A j \in (o + 2)..(n - 1) : EventTypes[j] = "content"
       /\ EventTypes[n] = "complete"

\* ---- streaming, one event at a time --------------------------------------
\* agent_service_simple.AgentService.stream_query_response: start, the
\* content of the one chunk when it is not empty, complete
AgentServiceSimple_stream_query_response(query, llm, srv) ==
  [run |-> StreamRun(NoAnalysis, <<>>, llm,
             << Event("start", None) >> \o ContentEvents(llm) \o << Event("complete", None) >>),
   servers |-> srv]

\* a generator in the hands of its consumer: what it yields in all, what the
\* servers are once its tool calls are made, and how many events were taken
StreamPosition(r, emitted) == [stream |-> r.run, servers |-> r.servers, emitted |-> emitted]

InitStreaming ==
  /\ impl \in {"redis", "simple"}
  /\ servers \in (IF impl = "redis" THEN ServerConfigs ELSE {FreshServers})
  /\ mvp_servers = {}
  /\ redis_up \in BOOLEAN
  /\ store = NoSessions
  /\ sessions = NoSessions
  /\ requests = 0
  /\ last = Op("none", None, <<>>, None, FALSE,
               StreamPosition([run |-> StreamRun(NoAnalysis, <<>>, "ok", <<>>),
                               servers |-> servers], 0))
  /\ first = NoFirst
  /\ estimate = NoEstimate

\* stream_query_response(query, session_id) is called: nothing runs until the
\* consumer asks for the first event; the earlier generator is exhausted
OpenStream(query, session_id, ext, llm) ==
  /\ requests < MaxRequests
  /\ requests' = requests + 1
  /\ last.run.emitted = Len(last.run.stream.events)
  /\ \E r \in {IF impl = "redis"
               THEN AgentService_stream_query_response(query, session_id, ext, llm, servers)
               ELSE AgentServiceSimple_stream_query_response(query, llm, servers)} :
       last' = Op("stream_query_response", impl, query, session_id, FALSE,
                  StreamPosition(r, 0))
  /\ UNCHANGED <<impl, servers, mvp_servers, redis_up, store, sessions, first, estimate>>

\* the consumer takes the next event; the tool calls are over when the event
\* after the loop is yielded
Yield ==
  /\ last.op = "stream_query_response"
  /\ last.run.emitted < Len(last.run.stream.events)
  /\ last' = [last EXCEPT !.run.emitted = @ + 1]
  /\ servers' = IF last.run.stream.events[last.run.emitted + 1].type = "generating"
                THEN last.run.servers ELSE servers
  /\ UNCHANGED <<impl, mvp_servers, redis_up, store, sessions, requests, first, estimate>>

NextStreaming ==
  \/ \E query \in PipelineQueries, session_id \in SessionIds \cup {None}, llm \in {"ok", "fail"} :
       \E ext \in [1..(IF impl = "redis" THEN Len(AgentService_analysis[query].tools) ELSE 0)
                     -> {"ok", "fail"}] :
         OpenStream(query, session_id, ext, llm)
  \/ Yield

\* every external call returns or raises, so a generator asked for its next
\* event yields it
SpecStreaming == InitStreaming /\ [][NextStreaming]_vars /\ WF_vars(Yield)

\* the events the consumer has taken so far
Emitted == SubSeq(last.run.stream.events, 1, last.run.emitted)

TerminalTypes == {"complete", "error"}

\* the stream is over: its last taken event is the terminal one
Terminated ==
  /\ last.run.emitted = Len(last.run.stream.events)
  /\ last.run.emitted > 0
  /\ Emitted[last.run.emitted].type \in TerminalTypes

C22_LlmFailureEmitsError ==
  last.op = "stream_query_response" /\ last.run.llm = "fail" =>
    \A i \in 1..Len(EventTypes) :
      EventTypes[i] = "generating" =>
        /\ Len(EventTypes) = i + 1
        /\ EventTypes[i + 1] = "error"

\* query_agent of endpoints/agent_mvp.py: the HTTP status its except clauses
\* give the outcome of process_query
query_agent(run) ==
  IF run.outcome = "returned" THEN 200
  ELSE IF run.error # NoError /\ run.error[1] = "GeminiAPIError" THEN 503
  ELSE IF run.error # NoError /\ run.error[1] = "AgentSessionError" THEN 400
  ELSE 500

\* C23: on the non-streaming path an LLM failure reaches the boundary as the
\* typed upstream-LLM error, so that the boundary reports "AI service
\* unavailable" (503) and not a session or generic error.
C23_LlmFailureReportedAsUnavailable ==
  Processed /\ last.svc = "redis"
    /\ last.run.error # NoError /\ last.run.error[2] = "GeminiAPIError" =>
      /\ last.run.error[1] = "GeminiAPIError"
      /\ query_agent(last.run) = 503

\* C24: a query that carries the id of an existing session and is answered
\* ends with a context update: once stream_query_response has emitted complete
\* the session's history ends with that query and message_count has grown.
C24_AnsweredQueryUpdatesContext ==
  last.op = "stream_query_response" /\ last.session_id # None /\ redis_up
    /\ EventTypes[Len(EventTypes)] = "complete"
    /\ store[last.session_id].exists =>
        /\ store[last.session_id].message_count > 0
        /\ store[last.session_id].history # <<>>
        /\ store[last.session_id].history[Len(store[last.session_id].history)].query = last.query

\* the tool names of a descriptor list, in order
ToolNames(tools) == [i \in 1..Len(tools) |-> tools[i].tool]

\* the tool names the category at position i of svc appends for the query
CategoryToolNames(svc, i, q) ==
  IF svc = "redis"
  THEN CASE i = 1 -> <<"get_coin_price">>
         [] i = 2 -> <<"get_fear_greed_index", "get_news">>
         [] i = 3 -> <<"get_news">>
         [] i = 4 -> <<"get_whale_alerts">>
         [] OTHER -> IF AgentService_extract_contract_code(Text(q)) \in {NoCode, <<>>}
                     THEN <<>> ELSE <<"compliance_audit">>
  ELSE CASE i = 1 -> <<"get_coin_price", "get_ticker">>
         [] i = 2 -> (IF AnyIn(BtcWords, TestedText(svc, q)) /\ AnyIn(EthWords, TestedText(svc, q))
                      THEN <<"get_coin_price", "get_coin_price", "get_ticker">> ELSE <<>>)
                     \o <<"get_fear_greed_index", "get_news">>
         [] i = 3 -> <<"get_news">>
         [] OTHER -> <<"get_market_data", "get_fear_greed_index">>

\* the tool names of the categories at positions i.. that the query matches
RECURSIVE AccumulatedToolNames(_, _, _)
AccumulatedToolNames(svc, i, q) ==
  IF i > Len(CategoriesOf(svc)) THEN <<>>
  ELSE (IF i \in Matching(svc, q) THEN CategoryToolNames(svc, i, q) ELSE <<>>)
       \o AccumulatedToolNames(svc, i + 1, q)

\* C25: classification evaluates the category checks in order: for a query
\* that matches several categories the classifier of AgentService and of
\* AgentServiceMVP returns the tools of every matched category, accumulated in
\* evaluation order with none dropped or deduplicated, and the type of the
\* last matching category.
C25_ToolsAccumulateLastTypeWins ==
  Classified /\ last.svc \in {"redis", "mvp"} /\ Cardinality(Matching(last.svc, last.query)) >= 2 =>
    /\ ~last.run.analysis.raised
    /\ last.run.analysis.type = LastMatchType(last.svc, last.query)
    /\ ToolNames(last.run.analysis.tools) = AccumulatedToolNames(last.svc, 1, last.query)

\* C26: within one query the call_tool invocations are the classifier's
\* descriptors: each is called exactly once, in the classifier's order, one
\* after the other, and a failed call is not tried again.
C26_CallsFollowDescriptors ==
  Processed /\ last.svc = "redis" /\ ~last.run.analysis.raised =>
    LET tools == last.run.analysis.tools
    IN /\ Len(last.run.invoked) = Len(tools)
       /\ Len(last.run.calls) = Len(tools)
       /\ \A i \in 1..Len(tools) :
            last.run.invoked[i] = <<tools[i].server, tools[i].tool, tools[i].parameters>>

\* three descriptors were called in order; the second call failed and the
\* third was still made
C26_Witness ==
  /\ Processed
  /\ last.svc = "redis"
  /\ Len(last.run.invoked) = 3
  /\ last.run.calls[2] = "failed"
  /\ last.run.calls[3] = "ok"
  /\ last.run.invoked[2][2] = "get_news"
  /\ last.run.invoked[3][2] = "get_news"

\* ---- the workflow graph on its own ---------------------------------------
\* what one SpectraQGraph.process_query was given and returned
GraphRun(result, llm, risk) == [result |-> result, llm |-> llm, risk |-> risk]

InitGraph ==
  /\ impl = "redis"
  /\ servers \in ServerConfigs
  /\ mvp_servers = {}
  /\ redis_up \in BOOLEAN
  /\ store = NoSessions
  /\ sessions = NoSessions
  /\ requests = 0
  /\ last = Op("none", None, <<>>, None, TRUE, GraphRun(GraphError(servers), "ok", NoAudit))
  /\ first = NoFirst
  /\ estimate = NoEstimate

\* self.spectra_graph.process_query(query, context)
GraphProcessQuery(query, ext, llm, risk) ==
  /\ requests < MaxRequests
  /\ requests' = requests + 1
  /\ \E r \in {SpectraQGraph_process_query(query, ext, llm, risk, servers)} :
       /\ servers' = r.servers
       /\ last' = Op("graph_process_query", "graph", query, None, TRUE, GraphRun(r, llm, risk))
  /\ UNCHANGED <<impl, mvp_servers, redis_up, store, sessions, first, estimate>>

NextGraph ==
  \E query \in PipelineQueries, llm \in {"ok", "fail"}, risk \in RiskAnswers :
    \E ext \in [1..SpectraQGraph_calls(query) -> {"ok", "fail"}] :
      GraphProcessQuery(query, ext, llm, risk)

SpecGraph == InitGraph /\ [][NextGraph]_vars

\* the stages in the order the graph wires them
StageOrder == <<"query_analysis", "data_gathering", "compliance_audit", "response_generation">>

\* C27: every run of the graph goes through Classify, GatherData (unless the
\* type is the compliance one), ComplianceCheck and Synthesize, each at most
\* once: processing_steps starts with query_analysis, lists stages in the
\* order of the graph without repetition, never holds "error", and ends with
\* response_generation when the completion succeeds.
C27_GraphVisitsStagesInOrder ==
  last.op = "graph_process_query" =>
    LET steps == last.run.result.processing_steps
    IN /\ steps # <<>>
       /\ steps[1] = "query_analysis"
       /\ \A i \in 1..Len(steps) : \E k \in 1..Len(StageOrder) : steps[i] = StageOrder[k]
       /\ \A i, j \in 1..Len(steps) :
            i < j => \E k, l \in 1..Len(StageOrder) :
                       k < l /\ steps[i] = StageOrder[k] /\ steps[j] = StageOrder[l]
       /\ last.run.llm = "ok" => steps[Len(steps)] = "response_generation"

\* C28: when process_query runs with use_langgraph and the graph run fails,
\* the request falls back to the simple pipeline and answers with that
\* pipeline's response, not with the failed graph run's result.
C28_GraphFailureFallsBack ==
  last.op = "process_query" /\ last.svc = "redis" /\ last.use_langgraph
    /\ SpectraQGraph_analysis[last.query].raised =>
      /\ last.run.path = "simple"
      /\ last.run.response # "Error processing query"

\* C29: a process_query that fails for a query carrying a session id leaves
\* the stored session record as it was: no exchange appended, message_count
\* not incremented, time to live not refreshed.
C29_FailedQueryLeavesSession ==
  [][requests' # requests /\ last'.op = "process_query" /\ last'.svc = "redis"
       /\ last'.session_id # None /\ last'.run.outcome = "raised"
     => store' = store]_vars

\* ---- two queries in flight on one event loop ----------------------------
\* the session ids the two queries may carry
ConcurrentSessionIds == {"s1", "s2"}

\* the coroutines of the two process_query calls
Tasks == {1, 2}

\* one process_query call in flight: where it stands, what it was given, and
\* the session_data its redis.get returned
Task(pc, session_id, query, tool_results, data) ==
  [pc |-> pc, session_id |-> session_id, query |-> query,
   tool_results |-> tool_results, data |-> data]

\* the two calls, and the session records as they were before either started
ConcurrentRun(tasks, before) == [tasks |-> tasks, before |-> before]

\* the session records found before the calls: none, a new one, one exchange
SessionRecords(svc) == {NoSession, Exchanges(svc, 0)["s1"], Exchanges(svc, 1)["s1"]}

InitConcurrent ==
  /\ impl \in {"redis", "mvp"}
  /\ servers = FreshServers
  /\ mvp_servers = {}
  /\ redis_up = TRUE
  /\ store \in (IF impl = "redis" THEN [ConcurrentSessionIds -> SessionRecords("redis")]
                ELSE {[s \in ConcurrentSessionIds |-> NoSession]})
  /\ sessions \in (IF impl = "mvp" THEN [ConcurrentSessionIds -> SessionRecords("mvp")]
                   ELSE {[s \in ConcurrentSessionIds |-> NoSession]})
  /\ requests = 0
  /\ \E sids \in [Tasks -> ConcurrentSessionIds],
        tr \in [Tasks -> MessageToolResults] :
       last = Op("process_query", impl, <<>>, None, FALSE,
                 ConcurrentRun([t \in Tasks |->
                                  Task("start", sids[t],
                                       IF t = 1 THEN <<"hello">> ELSE <<"price_btc">>,
                                       tr[t], NoSession)],
                               IF impl = "mvp" THEN sessions ELSE store))
  /\ first = NoFirst
  /\ estimate = NoEstimate

\* the task t of the run, moved to pc with data as what it read
Moved(t, pc, data) ==
  [last EXCEPT !.run.tasks[t].pc = pc, !.run.tasks[t].data = data]

\* process_query up to the LLM call: the awaits of the tool calls and of
\* chat_completion, which answers or raises GeminiAPIError
AwaitCompletion(t, llm) ==
  /\ last.run.tasks[t].pc = "start"
  /\ requests' = requests + 1
  /\ last' = Moved(t, IF llm = "ok" THEN "answered" ELSE "failed", NoSession)
  /\ UNCHANGED <<impl, servers, mvp_servers, redis_up, store, sessions, first, estimate>>

\* AgentService._update_session_context up to its first await:
\* session_data = await self.redis.get(session_key); a missing key ends it
AwaitRedisGet(t) ==
  /\ impl = "redis"
  /\ last.run.tasks[t].pc = "answered"
  /\ \E data \in {store[last.run.tasks[t].session_id]} :
       last' = Moved(t, IF data.exists THEN "read" ELSE "done", data)
  /\ UNCHANGED <<impl, servers, mvp_servers, redis_up, store, sessions, requests, first,
                 estimate>>

\* the rest of AgentService._update_session_context: the exchange is appended
\* to the data read and await self.redis.setex writes it under the key
AwaitRedisSetex(t) ==
  /\ impl = "redis"
  /\ last.run.tasks[t].pc = "read"
  /\ \E task \in {last.run.tasks[t]} :
       store' = [store EXCEPT ![task.session_id] =
                   AgentService_update_session_context(
                     [s \in {task.session_id} |-> task.data], redis_up, task.session_id,
                     task.query, "llm_answer", task.tool_results)[task.session_id]]
  /\ last' = Moved(t, "done", last.run.tasks[t].data)
  /\ UNCHANGED <<impl, servers, mvp_servers, redis_up, sessions, requests, first, estimate>>

\* AgentServiceMVP._update_session_context: no await between reading
\* self.sessions and changing it, so the event loop runs it in one piece
MvpUpdateSessionContext(t) ==
  /\ impl = "mvp"
  /\ last.run.tasks[t].pc = "answered"
  /\ \E task \in {last.run.tasks[t]} :
       sessions' = AgentServiceMVP_update_session_context(sessions, task.session_id,
                     task.query, "llm_answer", task.tool_results)
  /\ last' = Moved(t, "done", sessions[last.run.tasks[t].session_id])
  /\ UNCHANGED <<impl, servers, mvp_servers, redis_up, store, requests, first, estimate>>

NextConcurrent ==
  \/ \E t \in Tasks, llm \in {"ok", "fail"} : AwaitCompletion(t, llm)
  \/ \E t \in Tasks : AwaitRedisGet(t)
  \/ \E t \in Tasks : AwaitRedisSetex(t)
  \/ \E t \in Tasks : MvpUpdateSessionContext(t)

SpecConcurrent == InitConcurrent /\ [][NextConcurrent]_vars

\* both calls were answered and finished their session update
BothUpdated == \A t \in Tasks : last.run.tasks[t].pc = "done"

\* the queries of the calls made on sid
QueriesOn(sid) == {last.run.tasks[t].query : t \in {u \in Tasks : last.run.tasks[u].session_id = sid}}

\* the queries of the exchanges sid holds beyond those it held before
AppendedOn(sid) ==
  {Held(sid).history[i].query :
     i \in Len(last.run.before[sid].history) + 1 .. Len(Held(sid).history)}

\* a session no call is made on holds the record it held before
OthersUntouched ==
  \A sid \in ConcurrentSessionIds :
    QueriesOn(sid) = {} => Held(sid) = last.run.before[sid]

====
